---------------------------- MODULE Spec2Model ----------------------------
(***************************************************************************)
(* Family Hub backend, shopping service: the duplicate reconciler          *)
(* (services/shopping/crud.py add_item and the item operations behind the  *)
(* routes of services/shopping/routes.py) and the keyword categorizer      *)
(* (services/shopping/utils.py, crud.py categorize_item_for_tenant).       *)
(*                                                                         *)
(* Text (item names, keywords, category names) is a sequence of one-       *)
(* character strings, so that lower(), strip() and the substring test      *)
(* "keyword in name" are computed character by character.  Time is counted *)
(* in whole hours.  Quantities are naturals.                               *)
(***************************************************************************)
EXTENDS Integers, Sequences, FiniteSets, TLC

\* Optional[T]: None is the empty tuple, a present value v is <<v>>.
None == <<>>
Some(v) == <<v>>
Val(o) == o[1]

(***************************************************************************)
(* str: lower(), strip(), "in".                                            *)
(***************************************************************************)
UpperCase ==
  <<"A","B","C","D","E","F","G","H","I","J","K","L","M",
    "N","O","P","Q","R","S","T","U","V","W","X","Y","Z">>

LowerCase ==
  <<"a","b","c","d","e","f","g","h","i","j","k","l","m",
    "n","o","p","q","r","s","t","u","v","w","x","y","z">>

Whitespace == {" ", "\t", "\n", "\r"}

lower_char(c) ==
  IF \E i \in DOMAIN UpperCase : UpperCase[i] = c
  THEN LowerCase[CHOOSE i \in DOMAIN UpperCase : UpperCase[i] = c]
  ELSE c

\* str.lower()
str_lower(s) == [i \in 1..Len(s) |-> lower_char(s[i])]

RECURSIVE str_lstrip(_)
str_lstrip(s) ==
  IF s # <<>> /\ Head(s) \in Whitespace THEN str_lstrip(Tail(s)) ELSE s

RECURSIVE str_rstrip(_)
str_rstrip(s) ==
  IF s # <<>> /\ s[Len(s)] \in Whitespace
  THEN str_rstrip(SubSeq(s, 1, Len(s) - 1))
  ELSE s

\* str.strip()
str_strip(s) == str_rstrip(str_lstrip(s))

\* k in s  (substring test)
str_in(k, s) ==
  \E i \in 0..(Len(s) - Len(k)) : SubSeq(s, i + 1, i + Len(k)) = k

(***************************************************************************)
(* services/shopping/utils.py                                              *)
(***************************************************************************)
Other == <<"O","t","h","e","r">>

CATEGORY_KEYWORDS ==
  <<
    [name |-> <<"P","r","o","d","u","c","e">>,
     keywords |-> <<
       <<"a","p","p","l","e">>, <<"b","a","n","a","n","a">>, <<"o","r","a","n","g","e">>,
       <<"l","e","m","o","n">>, <<"l","i","m","e">>, <<"g","r","a","p","e">>,
       <<"s","t","r","a","w","b","e","r","r","y">>, <<"b","l","u","e","b","e","r","r","y">>,
       <<"r","a","s","p","b","e","r","r","y">>, <<"m","a","n","g","o">>, <<"p","e","a","r">>,
       <<"p","e","a","c","h">>, <<"p","l","u","m">>, <<"c","h","e","r","r","y">>,
       <<"m","e","l","o","n">>, <<"w","a","t","e","r","m","e","l","o","n">>,
       <<"p","i","n","e","a","p","p","l","e">>, <<"k","i","w","i">>,
       <<"a","v","o","c","a","d","o">>, <<"t","o","m","a","t","o">>, <<"p","o","t","a","t","o">>,
       <<"o","n","i","o","n">>, <<"g","a","r","l","i","c">>, <<"c","a","r","r","o","t">>,
       <<"b","r","o","c","c","o","l","i">>, <<"c","a","u","l","i","f","l","o","w","e","r">>,
       <<"c","a","b","b","a","g","e">>, <<"l","e","t","t","u","c","e">>,
       <<"s","p","i","n","a","c","h">>, <<"k","a","l","e">>, <<"c","u","c","u","m","b","e","r">>,
       <<"p","e","p","p","e","r">>, <<"c","o","u","r","g","e","t","t","e">>,
       <<"z","u","c","c","h","i","n","i">>, <<"a","u","b","e","r","g","i","n","e">>,
       <<"e","g","g","p","l","a","n","t">>, <<"m","u","s","h","r","o","o","m">>,
       <<"c","e","l","e","r","y">>, <<"l","e","e","k">>,
       <<"s","p","r","i","n","g"," ","o","n","i","o","n">>, <<"s","w","e","e","t","c","o","r","n">>,
       <<"c","o","r","n">>, <<"p","e","a","s">>, <<"b","e","a","n","s">>,
       <<"a","s","p","a","r","a","g","u","s">>, <<"b","e","e","t","r","o","o","t">>,
       <<"p","a","r","s","n","i","p">>, <<"s","w","e","d","e">>, <<"t","u","r","n","i","p">>,
       <<"r","a","d","i","s","h">>, <<"g","i","n","g","e","r">>, <<"c","h","i","l","l","i">>,
       <<"h","e","r","b","s">>, <<"b","a","s","i","l">>, <<"p","a","r","s","l","e","y">>,
       <<"c","o","r","i","a","n","d","e","r">>, <<"m","i","n","t">>,
       <<"r","o","s","e","m","a","r","y">>, <<"t","h","y","m","e">>, <<"s","a","g","e">>
     >>],
    [name |-> <<"D","a","i","r","y">>,
     keywords |-> <<
       <<"m","i","l","k">>, <<"c","h","e","e","s","e">>, <<"y","o","g","u","r","t">>,
       <<"y","o","g","h","u","r","t">>, <<"b","u","t","t","e","r">>, <<"c","r","e","a","m">>,
       <<"c","r","e","m","e"," ","f","r","a","i","c","h","e">>,
       <<"s","o","u","r"," ","c","r","e","a","m">>,
       <<"c","o","t","t","a","g","e"," ","c","h","e","e","s","e">>,
       <<"c","r","e","a","m"," ","c","h","e","e","s","e">>,
       <<"m","o","z","z","a","r","e","l","l","a">>, <<"c","h","e","d","d","a","r">>,
       <<"p","a","r","m","e","s","a","n">>, <<"b","r","i","e">>,
       <<"c","a","m","e","m","b","e","r","t">>, <<"f","e","t","a">>,
       <<"h","a","l","l","o","u","m","i">>, <<"g","o","u","d","a">>, <<"e","d","a","m">>,
       <<"d","o","u","b","l","e"," ","c","r","e","a","m">>,
       <<"s","i","n","g","l","e"," ","c","r","e","a","m">>,
       <<"c","l","o","t","t","e","d"," ","c","r","e","a","m">>, <<"c","u","s","t","a","r","d">>,
       <<"f","r","o","m","a","g","e"," ","f","r","a","i","s">>
     >>],
    [name |-> <<"M","e","a","t">>,
     keywords |-> <<
       <<"c","h","i","c","k","e","n">>, <<"b","e","e","f">>, <<"p","o","r","k">>,
       <<"l","a","m","b">>, <<"m","i","n","c","e">>, <<"s","t","e","a","k">>,
       <<"s","a","u","s","a","g","e">>, <<"b","a","c","o","n">>, <<"h","a","m">>,
       <<"t","u","r","k","e","y">>, <<"d","u","c","k">>, <<"g","o","o","s","e">>,
       <<"v","e","n","i","s","o","n">>, <<"r","a","b","b","i","t">>, <<"g","a","m","m","o","n">>,
       <<"p","o","r","k"," ","c","h","o","p">>, <<"l","a","m","b"," ","c","h","o","p">>,
       <<"c","h","i","c","k","e","n"," ","b","r","e","a","s","t">>,
       <<"c","h","i","c","k","e","n"," ","t","h","i","g","h">>,
       <<"c","h","i","c","k","e","n"," ","w","i","n","g">>,
       <<"b","e","e","f"," ","j","o","i","n","t">>, <<"p","o","r","k"," ","j","o","i","n","t">>,
       <<"l","a","m","b"," ","j","o","i","n","t">>, <<"r","o","a","s","t">>,
       <<"b","u","r","g","e","r">>, <<"m","e","a","t","b","a","l","l">>
     >>],
    [name |-> <<"F","i","s","h">>,
     keywords |-> <<
       <<"s","a","l","m","o","n">>, <<"c","o","d">>, <<"h","a","d","d","o","c","k">>,
       <<"t","u","n","a">>, <<"m","a","c","k","e","r","e","l">>, <<"s","a","r","d","i","n","e">>,
       <<"t","r","o","u","t">>, <<"s","e","a"," ","b","a","s","s">>, <<"p","l","a","i","c","e">>,
       <<"s","o","l","e">>, <<"p","r","a","w","n","s">>, <<"s","h","r","i","m","p">>,
       <<"c","r","a","b">>, <<"l","o","b","s","t","e","r">>, <<"m","u","s","s","e","l","s">>,
       <<"c","l","a","m","s">>, <<"o","y","s","t","e","r","s">>, <<"s","q","u","i","d">>,
       <<"c","a","l","a","m","a","r","i">>, <<"f","i","s","h"," ","f","i","n","g","e","r","s">>,
       <<"f","i","s","h"," ","c","a","k","e">>,
       <<"s","m","o","k","e","d"," ","s","a","l","m","o","n">>,
       <<"s","m","o","k","e","d"," ","h","a","d","d","o","c","k">>, <<"k","i","p","p","e","r","s">>
     >>],
    [name |-> <<"B","a","k","e","r","y">>,
     keywords |-> <<
       <<"b","r","e","a","d">>, <<"r","o","l","l","s">>, <<"b","a","g","u","e","t","t","e">>,
       <<"c","i","a","b","a","t","t","a">>, <<"s","o","u","r","d","o","u","g","h">>,
       <<"p","i","t","t","a">>, <<"n","a","a","n">>, <<"w","r","a","p">>,
       <<"t","o","r","t","i","l","l","a">>, <<"c","r","o","i","s","s","a","n","t">>,
       <<"p","a","i","n"," ","a","u"," ","c","h","o","c","o","l","a","t">>,
       <<"b","r","i","o","c","h","e">>, <<"b","a","g","e","l">>, <<"m","u","f","f","i","n">>,
       <<"s","c","o","n","e">>, <<"c","r","u","m","p","e","t">>, <<"p","a","n","c","a","k","e">>,
       <<"w","a","f","f","l","e">>, <<"c","a","k","e">>, <<"b","r","o","w","n","i","e">>,
       <<"c","o","o","k","i","e">>, <<"b","i","s","c","u","i","t">>, <<"p","a","s","t","r","y">>,
       <<"p","i","e">>, <<"t","a","r","t">>, <<"d","o","u","g","h","n","u","t">>,
       <<"d","o","n","u","t">>
     >>],
    [name |-> <<"F","r","o","z","e","n">>,
     keywords |-> <<
       <<"f","r","o","z","e","n">>, <<"i","c","e"," ","c","r","e","a","m">>,
       <<"i","c","e"," ","l","o","l","l","y">>, <<"f","r","o","z","e","n"," ","p","i","z","z","a">>,
       <<"f","r","o","z","e","n"," ","c","h","i","p","s">>,
       <<"f","r","o","z","e","n"," ","p","e","a","s">>,
       <<"f","r","o","z","e","n"," ","v","e","g","e","t","a","b","l","e","s">>,
       <<"f","r","o","z","e","n"," ","f","r","u","i","t">>,
       <<"f","r","o","z","e","n"," ","f","i","s","h">>,
       <<"f","r","o","z","e","n"," ","c","h","i","c","k","e","n">>,
       <<"f","r","o","z","e","n"," ","m","e","a","l">>, <<"r","e","a","d","y"," ","m","e","a","l">>,
       <<"s","o","r","b","e","t">>, <<"g","e","l","a","t","o">>
     >>],
    [name |-> <<"D","r","i","n","k","s">>,
     keywords |-> <<
       <<"w","a","t","e","r">>, <<"j","u","i","c","e">>,
       <<"o","r","a","n","g","e"," ","j","u","i","c","e">>,
       <<"a","p","p","l","e"," ","j","u","i","c","e">>, <<"s","q","u","a","s","h">>,
       <<"c","o","r","d","i","a","l">>, <<"c","o","l","a">>, <<"c","o","k","e">>,
       <<"p","e","p","s","i">>, <<"l","e","m","o","n","a","d","e">>, <<"s","p","r","i","t","e">>,
       <<"f","a","n","t","a">>, <<"e","n","e","r","g","y"," ","d","r","i","n","k">>,
       <<"t","e","a">>, <<"c","o","f","f","e","e">>,
       <<"h","o","t"," ","c","h","o","c","o","l","a","t","e">>, <<"b","e","e","r">>,
       <<"w","i","n","e">>, <<"c","i","d","e","r">>, <<"s","p","i","r","i","t","s">>,
       <<"g","i","n">>, <<"v","o","d","k","a">>, <<"w","h","i","s","k","y">>, <<"r","u","m">>,
       <<"p","r","o","s","e","c","c","o">>, <<"c","h","a","m","p","a","g","n","e">>,
       <<"s","m","o","o","t","h","i","e">>
     >>],
    [name |-> <<"P","a","n","t","r","y">>,
     keywords |-> <<
       <<"p","a","s","t","a">>, <<"s","p","a","g","h","e","t","t","i">>, <<"p","e","n","n","e">>,
       <<"r","i","c","e">>, <<"n","o","o","d","l","e","s">>, <<"c","o","u","s","c","o","u","s">>,
       <<"q","u","i","n","o","a">>, <<"f","l","o","u","r">>, <<"s","u","g","a","r">>,
       <<"s","a","l","t">>, <<"p","e","p","p","e","r">>, <<"o","i","l">>,
       <<"o","l","i","v","e"," ","o","i","l">>,
       <<"v","e","g","e","t","a","b","l","e"," ","o","i","l">>, <<"v","i","n","e","g","a","r">>,
       <<"s","o","y"," ","s","a","u","c","e">>,
       <<"w","o","r","c","e","s","t","e","r","s","h","i","r","e">>, <<"k","e","t","c","h","u","p">>,
       <<"m","a","y","o","n","n","a","i","s","e">>, <<"m","u","s","t","a","r","d">>,
       <<"h","o","n","e","y">>, <<"j","a","m">>, <<"m","a","r","m","a","l","a","d","e">>,
       <<"p","e","a","n","u","t"," ","b","u","t","t","e","r">>, <<"n","u","t","e","l","l","a">>,
       <<"m","a","r","m","i","t","e">>, <<"c","e","r","e","a","l">>,
       <<"p","o","r","r","i","d","g","e">>, <<"o","a","t","s">>,
       <<"c","o","r","n","f","l","a","k","e","s">>, <<"b","r","a","n"," ","f","l","a","k","e","s">>,
       <<"m","u","e","s","l","i">>, <<"b","a","k","e","d"," ","b","e","a","n","s">>,
       <<"t","i","n","n","e","d"," ","t","o","m","a","t","o","e","s">>,
       <<"c","h","o","p","p","e","d"," ","t","o","m","a","t","o","e","s">>,
       <<"t","o","m","a","t","o"," ","p","u","r","e","e">>,
       <<"c","o","c","o","n","u","t"," ","m","i","l","k">>, <<"s","t","o","c","k">>,
       <<"g","r","a","v","y">>, <<"s","o","u","p">>, <<"c","r","i","s","p","s">>,
       <<"n","u","t","s">>, <<"d","r","i","e","d"," ","f","r","u","i","t">>
     >>],
    [name |-> <<"E","g","g","s">>,
     keywords |-> <<
       <<"e","g","g","s">>, <<"e","g","g">>,
       <<"f","r","e","e"," ","r","a","n","g","e"," ","e","g","g","s">>,
       <<"o","r","g","a","n","i","c"," ","e","g","g","s">>
     >>],
    [name |-> <<"H","o","u","s","e","h","o","l","d">>,
     keywords |-> <<
       <<"t","o","i","l","e","t"," ","p","a","p","e","r">>,
       <<"k","i","t","c","h","e","n"," ","r","o","l","l">>, <<"t","i","s","s","u","e","s">>,
       <<"b","i","n"," ","b","a","g","s">>, <<"c","l","i","n","g"," ","f","i","l","m">>,
       <<"f","o","i","l">>, <<"b","a","k","i","n","g"," ","p","a","p","e","r">>,
       <<"w","a","s","h","i","n","g"," ","u","p"," ","l","i","q","u","i","d">>,
       <<"d","i","s","h","w","a","s","h","e","r"," ","t","a","b","l","e","t","s">>,
       <<"l","a","u","n","d","r","y"," ","d","e","t","e","r","g","e","n","t">>,
       <<"f","a","b","r","i","c"," ","s","o","f","t","e","n","e","r">>, <<"b","l","e","a","c","h">>,
       <<"s","u","r","f","a","c","e"," ","c","l","e","a","n","e","r">>,
       <<"f","l","o","o","r"," ","c","l","e","a","n","e","r">>, <<"s","p","o","n","g","e">>,
       <<"c","l","o","t","h">>, <<"m","o","p">>, <<"b","r","u","s","h">>, <<"s","o","a","p">>,
       <<"h","a","n","d"," ","w","a","s","h">>, <<"s","h","a","m","p","o","o">>,
       <<"c","o","n","d","i","t","i","o","n","e","r">>, <<"s","h","o","w","e","r"," ","g","e","l">>,
       <<"t","o","o","t","h","p","a","s","t","e">>, <<"d","e","o","d","o","r","a","n","t">>
     >>],
    [name |-> <<"B","a","b","y">>,
     keywords |-> <<
       <<"n","a","p","p","i","e","s">>, <<"d","i","a","p","e","r","s">>,
       <<"b","a","b","y"," ","w","i","p","e","s">>, <<"b","a","b","y"," ","f","o","o","d">>,
       <<"f","o","r","m","u","l","a">>, <<"b","a","b","y"," ","m","i","l","k">>
     >>],
    [name |-> <<"P","e","t">>,
     keywords |-> <<
       <<"d","o","g"," ","f","o","o","d">>, <<"c","a","t"," ","f","o","o","d">>,
       <<"p","e","t"," ","f","o","o","d">>, <<"c","a","t"," ","l","i","t","t","e","r">>,
       <<"d","o","g"," ","t","r","e","a","t","s">>, <<"c","a","t"," ","t","r","e","a","t","s">>
     >>]
  >>
DEFAULT_CATEGORIES ==
  <<
    [name |-> <<"P","r","o","d","u","c","e">>,
     keywords |-> <<
       <<"a","p","p","l","e">>, <<"b","a","n","a","n","a">>, <<"o","r","a","n","g","e">>,
       <<"l","e","m","o","n">>, <<"l","i","m","e">>, <<"g","r","a","p","e">>,
       <<"s","t","r","a","w","b","e","r","r","y">>, <<"b","l","u","e","b","e","r","r","y">>,
       <<"r","a","s","p","b","e","r","r","y">>, <<"m","a","n","g","o">>, <<"p","e","a","r">>,
       <<"p","e","a","c","h">>, <<"p","l","u","m">>, <<"c","h","e","r","r","y">>,
       <<"m","e","l","o","n">>, <<"w","a","t","e","r","m","e","l","o","n">>,
       <<"p","i","n","e","a","p","p","l","e">>, <<"k","i","w","i">>,
       <<"a","v","o","c","a","d","o">>, <<"t","o","m","a","t","o">>, <<"p","o","t","a","t","o">>,
       <<"o","n","i","o","n">>, <<"g","a","r","l","i","c">>, <<"c","a","r","r","o","t">>,
       <<"b","r","o","c","c","o","l","i">>, <<"c","a","u","l","i","f","l","o","w","e","r">>,
       <<"c","a","b","b","a","g","e">>, <<"l","e","t","t","u","c","e">>,
       <<"s","p","i","n","a","c","h">>, <<"k","a","l","e">>, <<"c","u","c","u","m","b","e","r">>,
       <<"p","e","p","p","e","r">>, <<"c","o","u","r","g","e","t","t","e">>,
       <<"z","u","c","c","h","i","n","i">>, <<"a","u","b","e","r","g","i","n","e">>,
       <<"e","g","g","p","l","a","n","t">>, <<"m","u","s","h","r","o","o","m">>,
       <<"c","e","l","e","r","y">>, <<"l","e","e","k">>,
       <<"s","p","r","i","n","g"," ","o","n","i","o","n">>, <<"s","w","e","e","t","c","o","r","n">>,
       <<"c","o","r","n">>, <<"p","e","a","s">>, <<"b","e","a","n","s">>,
       <<"a","s","p","a","r","a","g","u","s">>, <<"b","e","e","t","r","o","o","t">>,
       <<"p","a","r","s","n","i","p">>, <<"s","w","e","d","e">>, <<"t","u","r","n","i","p">>,
       <<"r","a","d","i","s","h">>, <<"g","i","n","g","e","r">>, <<"c","h","i","l","l","i">>,
       <<"h","e","r","b","s">>, <<"b","a","s","i","l">>, <<"p","a","r","s","l","e","y">>,
       <<"c","o","r","i","a","n","d","e","r">>, <<"m","i","n","t">>,
       <<"r","o","s","e","m","a","r","y">>, <<"t","h","y","m","e">>, <<"s","a","g","e">>
     >>],
    [name |-> <<"D","a","i","r","y">>,
     keywords |-> <<
       <<"m","i","l","k">>, <<"c","h","e","e","s","e">>, <<"y","o","g","u","r","t">>,
       <<"y","o","g","h","u","r","t">>, <<"b","u","t","t","e","r">>, <<"c","r","e","a","m">>,
       <<"c","r","e","m","e"," ","f","r","a","i","c","h","e">>,
       <<"s","o","u","r"," ","c","r","e","a","m">>,
       <<"c","o","t","t","a","g","e"," ","c","h","e","e","s","e">>,
       <<"c","r","e","a","m"," ","c","h","e","e","s","e">>,
       <<"m","o","z","z","a","r","e","l","l","a">>, <<"c","h","e","d","d","a","r">>,
       <<"p","a","r","m","e","s","a","n">>, <<"b","r","i","e">>,
       <<"c","a","m","e","m","b","e","r","t">>, <<"f","e","t","a">>,
       <<"h","a","l","l","o","u","m","i">>, <<"g","o","u","d","a">>, <<"e","d","a","m">>,
       <<"d","o","u","b","l","e"," ","c","r","e","a","m">>,
       <<"s","i","n","g","l","e"," ","c","r","e","a","m">>,
       <<"c","l","o","t","t","e","d"," ","c","r","e","a","m">>, <<"c","u","s","t","a","r","d">>,
       <<"f","r","o","m","a","g","e"," ","f","r","a","i","s">>
     >>],
    [name |-> <<"M","e","a","t">>,
     keywords |-> <<
       <<"c","h","i","c","k","e","n">>, <<"b","e","e","f">>, <<"p","o","r","k">>,
       <<"l","a","m","b">>, <<"m","i","n","c","e">>, <<"s","t","e","a","k">>,
       <<"s","a","u","s","a","g","e">>, <<"b","a","c","o","n">>, <<"h","a","m">>,
       <<"t","u","r","k","e","y">>, <<"d","u","c","k">>, <<"g","o","o","s","e">>,
       <<"v","e","n","i","s","o","n">>, <<"r","a","b","b","i","t">>, <<"g","a","m","m","o","n">>,
       <<"p","o","r","k"," ","c","h","o","p">>, <<"l","a","m","b"," ","c","h","o","p">>,
       <<"c","h","i","c","k","e","n"," ","b","r","e","a","s","t">>,
       <<"c","h","i","c","k","e","n"," ","t","h","i","g","h">>,
       <<"c","h","i","c","k","e","n"," ","w","i","n","g">>,
       <<"b","e","e","f"," ","j","o","i","n","t">>, <<"p","o","r","k"," ","j","o","i","n","t">>,
       <<"l","a","m","b"," ","j","o","i","n","t">>, <<"r","o","a","s","t">>,
       <<"b","u","r","g","e","r">>, <<"m","e","a","t","b","a","l","l">>
     >>],
    [name |-> <<"F","i","s","h">>,
     keywords |-> <<
       <<"s","a","l","m","o","n">>, <<"c","o","d">>, <<"h","a","d","d","o","c","k">>,
       <<"t","u","n","a">>, <<"m","a","c","k","e","r","e","l">>, <<"s","a","r","d","i","n","e">>,
       <<"t","r","o","u","t">>, <<"s","e","a"," ","b","a","s","s">>, <<"p","l","a","i","c","e">>,
       <<"s","o","l","e">>, <<"p","r","a","w","n","s">>, <<"s","h","r","i","m","p">>,
       <<"c","r","a","b">>, <<"l","o","b","s","t","e","r">>, <<"m","u","s","s","e","l","s">>,
       <<"c","l","a","m","s">>, <<"o","y","s","t","e","r","s">>, <<"s","q","u","i","d">>,
       <<"c","a","l","a","m","a","r","i">>, <<"f","i","s","h"," ","f","i","n","g","e","r","s">>,
       <<"f","i","s","h"," ","c","a","k","e">>,
       <<"s","m","o","k","e","d"," ","s","a","l","m","o","n">>,
       <<"s","m","o","k","e","d"," ","h","a","d","d","o","c","k">>, <<"k","i","p","p","e","r","s">>
     >>],
    [name |-> <<"B","a","k","e","r","y">>,
     keywords |-> <<
       <<"b","r","e","a","d">>, <<"r","o","l","l","s">>, <<"b","a","g","u","e","t","t","e">>,
       <<"c","i","a","b","a","t","t","a">>, <<"s","o","u","r","d","o","u","g","h">>,
       <<"p","i","t","t","a">>, <<"n","a","a","n">>, <<"w","r","a","p">>,
       <<"t","o","r","t","i","l","l","a">>, <<"c","r","o","i","s","s","a","n","t">>,
       <<"p","a","i","n"," ","a","u"," ","c","h","o","c","o","l","a","t">>,
       <<"b","r","i","o","c","h","e">>, <<"b","a","g","e","l">>, <<"m","u","f","f","i","n">>,
       <<"s","c","o","n","e">>, <<"c","r","u","m","p","e","t">>, <<"p","a","n","c","a","k","e">>,
       <<"w","a","f","f","l","e">>, <<"c","a","k","e">>, <<"b","r","o","w","n","i","e">>,
       <<"c","o","o","k","i","e">>, <<"b","i","s","c","u","i","t">>, <<"p","a","s","t","r","y">>,
       <<"p","i","e">>, <<"t","a","r","t">>, <<"d","o","u","g","h","n","u","t">>,
       <<"d","o","n","u","t">>
     >>],
    [name |-> <<"F","r","o","z","e","n">>,
     keywords |-> <<
       <<"f","r","o","z","e","n">>, <<"i","c","e"," ","c","r","e","a","m">>,
       <<"i","c","e"," ","l","o","l","l","y">>, <<"f","r","o","z","e","n"," ","p","i","z","z","a">>,
       <<"f","r","o","z","e","n"," ","c","h","i","p","s">>,
       <<"f","r","o","z","e","n"," ","p","e","a","s">>,
       <<"f","r","o","z","e","n"," ","v","e","g","e","t","a","b","l","e","s">>,
       <<"f","r","o","z","e","n"," ","f","r","u","i","t">>,
       <<"f","r","o","z","e","n"," ","f","i","s","h">>,
       <<"f","r","o","z","e","n"," ","c","h","i","c","k","e","n">>,
       <<"f","r","o","z","e","n"," ","m","e","a","l">>, <<"r","e","a","d","y"," ","m","e","a","l">>,
       <<"s","o","r","b","e","t">>, <<"g","e","l","a","t","o">>
     >>],
    [name |-> <<"D","r","i","n","k","s">>,
     keywords |-> <<
       <<"w","a","t","e","r">>, <<"j","u","i","c","e">>,
       <<"o","r","a","n","g","e"," ","j","u","i","c","e">>,
       <<"a","p","p","l","e"," ","j","u","i","c","e">>, <<"s","q","u","a","s","h">>,
       <<"c","o","r","d","i","a","l">>, <<"c","o","l","a">>, <<"c","o","k","e">>,
       <<"p","e","p","s","i">>, <<"l","e","m","o","n","a","d","e">>, <<"s","p","r","i","t","e">>,
       <<"f","a","n","t","a">>, <<"e","n","e","r","g","y"," ","d","r","i","n","k">>,
       <<"t","e","a">>, <<"c","o","f","f","e","e">>,
       <<"h","o","t"," ","c","h","o","c","o","l","a","t","e">>, <<"b","e","e","r">>,
       <<"w","i","n","e">>, <<"c","i","d","e","r">>, <<"s","p","i","r","i","t","s">>,
       <<"g","i","n">>, <<"v","o","d","k","a">>, <<"w","h","i","s","k","y">>, <<"r","u","m">>,
       <<"p","r","o","s","e","c","c","o">>, <<"c","h","a","m","p","a","g","n","e">>,
       <<"s","m","o","o","t","h","i","e">>
     >>],
    [name |-> <<"P","a","n","t","r","y">>,
     keywords |-> <<
       <<"p","a","s","t","a">>, <<"s","p","a","g","h","e","t","t","i">>, <<"p","e","n","n","e">>,
       <<"r","i","c","e">>, <<"n","o","o","d","l","e","s">>, <<"c","o","u","s","c","o","u","s">>,
       <<"q","u","i","n","o","a">>, <<"f","l","o","u","r">>, <<"s","u","g","a","r">>,
       <<"s","a","l","t">>, <<"p","e","p","p","e","r">>, <<"o","i","l">>,
       <<"o","l","i","v","e"," ","o","i","l">>,
       <<"v","e","g","e","t","a","b","l","e"," ","o","i","l">>, <<"v","i","n","e","g","a","r">>,
       <<"s","o","y"," ","s","a","u","c","e">>,
       <<"w","o","r","c","e","s","t","e","r","s","h","i","r","e">>, <<"k","e","t","c","h","u","p">>,
       <<"m","a","y","o","n","n","a","i","s","e">>, <<"m","u","s","t","a","r","d">>,
       <<"h","o","n","e","y">>, <<"j","a","m">>, <<"m","a","r","m","a","l","a","d","e">>,
       <<"p","e","a","n","u","t"," ","b","u","t","t","e","r">>, <<"n","u","t","e","l","l","a">>,
       <<"m","a","r","m","i","t","e">>, <<"c","e","r","e","a","l">>,
       <<"p","o","r","r","i","d","g","e">>, <<"o","a","t","s">>,
       <<"c","o","r","n","f","l","a","k","e","s">>, <<"b","r","a","n"," ","f","l","a","k","e","s">>,
       <<"m","u","e","s","l","i">>, <<"b","a","k","e","d"," ","b","e","a","n","s">>,
       <<"t","i","n","n","e","d"," ","t","o","m","a","t","o","e","s">>,
       <<"c","h","o","p","p","e","d"," ","t","o","m","a","t","o","e","s">>,
       <<"t","o","m","a","t","o"," ","p","u","r","e","e">>,
       <<"c","o","c","o","n","u","t"," ","m","i","l","k">>, <<"s","t","o","c","k">>,
       <<"g","r","a","v","y">>, <<"s","o","u","p">>, <<"c","r","i","s","p","s">>,
       <<"n","u","t","s">>, <<"d","r","i","e","d"," ","f","r","u","i","t">>
     >>],
    [name |-> <<"E","g","g","s">>,
     keywords |-> <<
       <<"e","g","g","s">>, <<"e","g","g">>,
       <<"f","r","e","e"," ","r","a","n","g","e"," ","e","g","g","s">>,
       <<"o","r","g","a","n","i","c"," ","e","g","g","s">>
     >>],
    [name |-> <<"H","o","u","s","e","h","o","l","d">>,
     keywords |-> <<
       <<"t","o","i","l","e","t"," ","p","a","p","e","r">>,
       <<"k","i","t","c","h","e","n"," ","r","o","l","l">>, <<"t","i","s","s","u","e","s">>,
       <<"b","i","n"," ","b","a","g","s">>, <<"c","l","i","n","g"," ","f","i","l","m">>,
       <<"f","o","i","l">>, <<"b","a","k","i","n","g"," ","p","a","p","e","r">>,
       <<"w","a","s","h","i","n","g"," ","u","p"," ","l","i","q","u","i","d">>,
       <<"d","i","s","h","w","a","s","h","e","r"," ","t","a","b","l","e","t","s">>,
       <<"l","a","u","n","d","r","y"," ","d","e","t","e","r","g","e","n","t">>,
       <<"f","a","b","r","i","c"," ","s","o","f","t","e","n","e","r">>, <<"b","l","e","a","c","h">>,
       <<"s","u","r","f","a","c","e"," ","c","l","e","a","n","e","r">>,
       <<"f","l","o","o","r"," ","c","l","e","a","n","e","r">>, <<"s","p","o","n","g","e">>,
       <<"c","l","o","t","h">>, <<"m","o","p">>, <<"b","r","u","s","h">>, <<"s","o","a","p">>,
       <<"h","a","n","d"," ","w","a","s","h">>, <<"s","h","a","m","p","o","o">>,
       <<"c","o","n","d","i","t","i","o","n","e","r">>, <<"s","h","o","w","e","r"," ","g","e","l">>,
       <<"t","o","o","t","h","p","a","s","t","e">>, <<"d","e","o","d","o","r","a","n","t">>
     >>],
    [name |-> <<"B","a","b","y">>,
     keywords |-> <<
       <<"n","a","p","p","i","e","s">>, <<"d","i","a","p","e","r","s">>,
       <<"b","a","b","y"," ","w","i","p","e","s">>, <<"b","a","b","y"," ","f","o","o","d">>,
       <<"f","o","r","m","u","l","a">>, <<"b","a","b","y"," ","m","i","l","k">>
     >>],
    [name |-> <<"P","e","t">>,
     keywords |-> <<
       <<"d","o","g"," ","f","o","o","d">>, <<"c","a","t"," ","f","o","o","d">>,
       <<"p","e","t"," ","f","o","o","d">>, <<"c","a","t"," ","l","i","t","t","e","r">>,
       <<"d","o","g"," ","t","r","e","a","t","s">>, <<"c","a","t"," ","t","r","e","a","t","s">>
     >>],
    [name |-> <<"O","t","h","e","r">>,
     keywords |-> <<

     >>]
  >>

\* A normalization that removes one whitespace character at each end
normalize_item_name_stripping_one(name) ==
  LET lowered == str_lower(name)
      left == IF lowered # <<>> /\ Head(lowered) \in Whitespace
              THEN Tail(lowered) ELSE lowered
  IN IF left # <<>> /\ left[Len(left)] \in Whitespace
     THEN SubSeq(left, 1, Len(left) - 1) ELSE left

\* normalize_item_name: name.lower().strip()
normalize_item_name(name) == str_strip(str_lower(name))

\* The loop of categorize_item over CATEGORY_KEYWORDS.items(), from entry i on:
\* the first category one of whose keywords occurs in name_lower.
RECURSIVE categorize_from(_, _, _)
categorize_from(rules, i, name_lower) ==
  IF i > Len(rules) THEN Other
  ELSE IF \E j \in DOMAIN rules[i].keywords : str_in(rules[i].keywords[j], name_lower)
       THEN rules[i].name
       ELSE categorize_from(rules, i + 1, name_lower)

categorize_item(name) == categorize_from(CATEGORY_KEYWORDS, 1, str_lower(name))

(***************************************************************************)
(* Bounds and inputs                                                       *)
(***************************************************************************)
MaxItems == 2      \* item rows ever created under Spec (ids 1..MaxItems)
MaxRows == 3       \* item rows ever created under SpecSameHour
MaxQty == 2        \* no merge is taken beyond this quantity
MaxTicks == 2      \* the clock advances at most this many times
TickHours == 16    \* hours per advance of the clock

\* find_recently_completed_item(..., hours=24)
RecencyHours == 24

Tenants == {"t1", "t2"}

Milk == <<"M","i","l","k">>
MilkVariant == <<"m","i","l","k"," ">>
Bread == <<"B","r","e","a","d">>

TinnedTomatoes == <<"T","i","n","n","e","d"," ","T","o","m","a","t","o","e","s">>
Xyzzy == <<"X","y","z","z","y">>
Treats == <<"T","r","e","a","t","s">>
Produce == <<"P","r","o","d","u","c","e">>
Dairy == <<"D","a","i","r","y">>
Pantry == <<"P","a","n","t","r","y">>

ItemNames == {Milk, MilkVariant, Bread}
CategorizeNames == {Milk, TinnedTomatoes, Xyzzy}
Quantities == {None}

\* ShoppingItemCreate: name, quantity, unit, category, source, force_add
AddRequests ==
  [name : ItemNames, quantity : Quantities, unit : {None},
   category : {None}, source : {None}, force_add : BOOLEAN]

\* ShoppingItemUpdate: name, quantity, unit, category
NoUpdate == [name |-> None, quantity |-> None, unit |-> None, category |-> None]
UpdateRequests == {[NoUpdate EXCEPT !.name = Some(MilkVariant)]}

\* categorize_item and normalize_item_name on the names of the requests,
\* computed once
categorize_item_of ==
  [n \in ItemNames \cup CategorizeNames \cup {<<>>, <<" ">>} |-> categorize_item(n)]
normalize_item_name_of ==
  [n \in ItemNames \cup {<<>>, <<" ">>} |-> normalize_item_name(n)]

VARIABLES
  lists,           \* shopping_lists rows
  items,           \* shopping_items rows
  categories,      \* shopping_categories rows
  nextId,          \* the id the next created item row gets
  nextCategoryId,  \* the id the next created category row gets
  now,             \* the clock, in hours
  resp,            \* the response to the last request (or the value a call returned)
  inflight,        \* per concurrent add-item request: where it is suspended
  nextListId,      \* the id the next created shopping list row gets
  events,          \* calendar_events rows
  nextEventId,     \* the id the next created event row gets
  users,           \* users rows
  refresh_tokens,  \* refresh_tokens rows
  nextTokenId,     \* the id the next stored refresh token row gets
  seconds          \* the clock of the auth service, in whole seconds (JWT NumericDate)

calendar_vars == <<events, nextEventId>>
auth_vars == <<users, refresh_tokens, nextTokenId, seconds>>

vars == <<lists, items, categories, nextId, nextCategoryId, now, resp, inflight,
          nextListId, calendar_vars, auth_vars>>

ItemIds == 1..(nextId - 1)
ListIds == {l.id : l \in lists}

(***************************************************************************)
(* Python and SQLAlchemy primitives                                        *)
(***************************************************************************)
\* Result.scalar_one_or_none(): the row, None, or MultipleResultsFound
MultipleResultsFound == <<"MultipleResultsFound", "raised">>
scalar_one_or_none(rows) ==
  IF rows = {} THEN None
  ELSE IF Cardinality(rows) = 1 THEN Some(CHOOSE r \in rows : TRUE)
  ELSE MultipleResultsFound

\* q or Decimal("1"), q an Optional[Decimal]: None and 0 are falsy
opt_decimal_or_one(q) == IF q = None \/ Val(q) = 0 THEN 1 ELSE Val(q)
\* q or Decimal("1"), q a Decimal column value
decimal_or_one(q) == IF q = 0 THEN 1 ELSE q
\* s or default, s an Optional[str]: None and "" are falsy
opt_str_or(s, default) == IF s = None \/ Val(s) = <<>> THEN default ELSE Val(s)
\* s or default, s an Optional enum string
opt_enum_or(s, default) == IF s = None THEN default ELSE Val(s)

(***************************************************************************)
(* services/shopping/crud.py                                               *)
(***************************************************************************)
\* get_list_by_id without the tenant filter
get_list_by_id_of_any_tenant(list_id, tenant_id) ==
  scalar_one_or_none({l \in lists : l.id = list_id})

get_list_by_id(list_id, tenant_id) ==
  scalar_one_or_none({l \in lists : l.id = list_id /\ l.tenant_id = tenant_id})

\* get_item_by_id without the tenant filter
get_item_by_id_of_any_tenant(item_id, tenant_id) ==
  scalar_one_or_none({i \in items : i.id = item_id})

get_item_by_id(item_id, tenant_id) ==
  scalar_one_or_none({i \in items : i.id = item_id /\ i.tenant_id = tenant_id})

find_duplicate_item(list_id, name_normalized) ==
  scalar_one_or_none({i \in items :
    /\ i.list_id = list_id
    /\ i.name_normalized = name_normalized
    /\ i.checked = FALSE})

recently_completed_rows(list_id, name_normalized, hours) ==
  {i \in items :
    /\ i.list_id = list_id
    /\ i.name_normalized = name_normalized
    /\ i.checked = TRUE
    /\ i.checked_at # None
    /\ Val(i.checked_at) > now - hours}

\* find_recently_completed_item without the cutoff_time condition
find_completed_item_of_any_age(list_id, name_normalized) ==
  scalar_one_or_none({i \in items :
    /\ i.list_id = list_id
    /\ i.name_normalized = name_normalized
    /\ i.checked = TRUE
    /\ i.checked_at # None})

find_recently_completed_item(list_id, name_normalized) ==
  scalar_one_or_none(recently_completed_rows(list_id, name_normalized, RecencyHours))

\* The row with the given id replaced by new
replace_row(rows, new) == {IF r.id = new.id THEN new ELSE r : r \in rows}

\* add_item returns (item, was_merged, previous_quantity, recently_completed_duplicate)
\* or raises; store is the table after the call's commit (unchanged without one).
AddResult(raised, item, was_merged, previous_quantity, recently_completed, store) ==
  [raised |-> raised, item |-> item, was_merged |-> was_merged,
   previous_quantity |-> previous_quantity,
   recently_completed |-> recently_completed, store |-> store]

\* "Create new item" of add_item; deleted is the set of rows db.delete() marked
crud_create_item(list_id, tenant_id, item_data, name_normalized, deleted) ==
  LET category == opt_str_or(item_data.category, categorize_item_of[item_data.name])
      new_item == [id |-> nextId,
                   list_id |-> list_id,
                   tenant_id |-> tenant_id,
                   name |-> item_data.name,
                   name_normalized |-> name_normalized,
                   quantity |-> opt_decimal_or_one(item_data.quantity),
                   unit |-> item_data.unit,
                   category |-> category,
                   checked |-> FALSE,
                   checked_at |-> None,
                   source |-> opt_enum_or(item_data.source, "manual")]
  IN AddResult(FALSE, Some(new_item), FALSE, None, None,
               (items \ deleted) \cup {new_item})

\* A merge that also takes the unit and the category of the request
crud_merge_item_taking_unit_and_category(existing, item_data) ==
  LET merged == [existing EXCEPT
                   !.quantity = decimal_or_one(existing.quantity)
                                  + opt_decimal_or_one(item_data.quantity),
                   !.source = "multiple",
                   !.unit = IF item_data.unit # None THEN item_data.unit ELSE @,
                   !.category = opt_str_or(item_data.category, @)]
  IN AddResult(FALSE, Some(merged), TRUE, Some(existing.quantity), None,
               replace_row(items, merged))

\* The merge branch of add_item
crud_merge_item(existing, item_data) ==
  LET merged == [existing EXCEPT
                   !.quantity = decimal_or_one(existing.quantity)
                                  + opt_decimal_or_one(item_data.quantity),
                   !.source = "multiple"]
  IN AddResult(FALSE, Some(merged), TRUE, Some(existing.quantity), None,
               replace_row(items, merged))

\* The prompt branch with the deletion of the force branch
crud_duplicate_prompt_deleting(recently_completed) ==
  AddResult(FALSE, None, FALSE, None, recently_completed,
            items \ {Val(recently_completed)})

\* "Return the duplicate for user confirmation": nothing is committed
crud_duplicate_prompt(recently_completed) ==
  AddResult(FALSE, None, FALSE, None, recently_completed, items)

crud_add_item(list_id, tenant_id, item_data, force_add) ==
  LET name_normalized == normalize_item_name_of[item_data.name]
      existing == find_duplicate_item(list_id, name_normalized)
      recently_completed == find_recently_completed_item(list_id, name_normalized)
  IN IF existing = MultipleResultsFound
       THEN AddResult(TRUE, None, FALSE, None, None, items)
     ELSE IF existing # None
       THEN crud_merge_item(Val(existing), item_data)
     ELSE IF recently_completed = MultipleResultsFound
       THEN AddResult(TRUE, None, FALSE, None, None, items)
     ELSE IF recently_completed # None /\ ~force_add
       THEN crud_duplicate_prompt(recently_completed)
     ELSE IF recently_completed # None /\ force_add
       THEN crud_create_item(list_id, tenant_id, item_data, name_normalized,
                             {Val(recently_completed)})
     ELSE crud_create_item(list_id, tenant_id, item_data, name_normalized, {})

\* update_item(db, item, name=, quantity=, unit=, category=)
\* update_item that assigns the fields and leaves name_normalized as it was
crud_update_item_keeping_normalized(item, data) ==
  LET named == IF data.name # None
               THEN [item EXCEPT !.name = Val(data.name)]
               ELSE item
      quantified == IF data.quantity # None
                    THEN [named EXCEPT !.quantity = Val(data.quantity)]
                    ELSE named
      united == IF data.unit # None
                THEN [quantified EXCEPT !.unit = data.unit]
                ELSE quantified
  IN IF data.category # None
     THEN [united EXCEPT !.category = Val(data.category)]
     ELSE united

crud_update_item(item, data) ==
  LET named == IF data.name # None
               THEN [item EXCEPT !.name = Val(data.name),
                                 !.name_normalized = normalize_item_name_of[Val(data.name)]]
               ELSE item
      quantified == IF data.quantity # None
                    THEN [named EXCEPT !.quantity = Val(data.quantity)]
                    ELSE named
      united == IF data.unit # None
                THEN [quantified EXCEPT !.unit = data.unit]
                ELSE quantified
  IN IF data.category # None
     THEN [united EXCEPT !.category = Val(data.category)]
     ELSE united

\* toggle_item without the reset of checked_at on unchecking
crud_toggle_item_keeping_checked_at(item) ==
  [item EXCEPT !.checked = ~item.checked,
               !.checked_at = IF item.checked THEN item.checked_at ELSE Some(now)]

crud_toggle_item(item) ==
  LET checked == ~item.checked
  IN [item EXCEPT !.checked = checked,
                  !.checked_at = IF checked THEN Some(now) ELSE None]

\* The UPDATE of complete_shop
\* A bulk complete that stamps every item of the list, checked or not
crud_complete_shop_restamping_all(list_id, tenant_id) ==
  {IF i.list_id = list_id /\ i.tenant_id = tenant_id
   THEN [i EXCEPT !.checked = TRUE, !.checked_at = Some(now)]
   ELSE i : i \in items}

crud_complete_shop(list_id, tenant_id) ==
  {IF i.list_id = list_id /\ i.tenant_id = tenant_id /\ i.checked = FALSE
   THEN [i EXCEPT !.checked = TRUE, !.checked_at = Some(now)]
   ELSE i : i \in items}

\* The code-point order of the characters of the model, for ORDER BY name
CodePoints == <<"\t", "\n", "\r", " ">> \o UpperCase \o LowerCase
ord(c) == CHOOSE i \in DOMAIN CodePoints : CodePoints[i] = c

RECURSIVE str_less(_, _)
str_less(a, b) ==
  IF b = <<>> THEN FALSE
  ELSE IF a = <<>> THEN TRUE
  ELSE IF Head(a) = Head(b) THEN str_less(Tail(a), Tail(b))
  ELSE ord(Head(a)) < ord(Head(b))

\* The reverse ordering: .order_by(sort_order.desc(), name.desc())
category_after(a, b) ==
  \/ a.sort_order > b.sort_order
  \/ a.sort_order = b.sort_order /\ str_less(b.name, a.name)

\* .order_by(ShoppingCategory.sort_order, ShoppingCategory.name)
category_before(a, b) ==
  \/ a.sort_order < b.sort_order
  \/ a.sort_order = b.sort_order /\ str_less(a.name, b.name)

RECURSIVE order_by_sort_order_name(_)
order_by_sort_order_name(rows) ==
  IF rows = {} THEN <<>>
  ELSE LET first == CHOOSE r \in rows : \A o \in rows : ~category_before(o, r)
       IN <<first>> \o order_by_sort_order_name(rows \ {first})

\* get_categories_by_tenant, on the table cats
get_categories_by_tenant(cats, tenant_id) ==
  order_by_sort_order_name({c \in cats : c.tenant_id = tenant_id})

get_category_by_id(category_id, tenant_id) ==
  scalar_one_or_none({c \in categories :
    c.id = category_id /\ c.tenant_id = tenant_id})

\* A lookup by name that finds no row
get_category_by_name_finding_none(name, tenant_id) == None

get_category_by_name(name, tenant_id) ==
  scalar_one_or_none({c \in categories :
    c.name = name /\ c.tenant_id = tenant_id})

\* The rows seed_default_categories adds: enumerate(DEFAULT_CATEGORIES)
seed_default_categories(tenant_id) ==
  {[id |-> nextCategoryId + idx,
    tenant_id |-> tenant_id,
    name |-> DEFAULT_CATEGORIES[idx + 1].name,
    keywords |-> DEFAULT_CATEGORIES[idx + 1].keywords,
    sort_order |-> idx,
    is_default |-> TRUE] : idx \in 0..(Len(DEFAULT_CATEGORIES) - 1)}

\* get_or_create_default_categories without its "if not categories" test
seed_default_categories_always(tenant_id) ==
  categories \cup seed_default_categories(tenant_id)

\* get_or_create_default_categories: the table after the call
\* (the tenant's rows are then get_categories_by_tenant of it)
get_or_create_default_categories(tenant_id) ==
  IF get_categories_by_tenant(categories, tenant_id) # <<>>
  THEN categories
  ELSE categories \cup seed_default_categories(tenant_id)

\* func.max(ShoppingCategory.sort_order) ... result.scalar() or 0
max_sort_order_or_zero(tenant_id) ==
  LET orders == {c.sort_order : c \in {r \in categories : r.tenant_id = tenant_id}}
  IN IF orders = {} THEN 0 ELSE CHOOSE m \in orders : \A o \in orders : o <= m

crud_create_category(tenant_id, data) ==
  [id |-> nextCategoryId,
   tenant_id |-> tenant_id,
   name |-> data.name,
   keywords |-> data.keywords,
   sort_order |-> max_sort_order_or_zero(tenant_id) + 1,
   is_default |-> FALSE]

\* update_category(db, category, data): name and keywords of the request
crud_update_category(category, data) ==
  LET named == IF data.name # None
               THEN [category EXCEPT !.name = Val(data.name)]
               ELSE category
  IN IF data.keywords # None
     THEN [named EXCEPT !.keywords = Val(data.keywords)]
     ELSE named

\* delete_category without its UPDATE of the items
delete_category_keeping_items(category, tenant_id) == items

\* The UPDATE of delete_category: the tenant's items of the category
delete_category_items(category, tenant_id) ==
  {IF i.tenant_id = tenant_id /\ i.category = category.name
   THEN [i EXCEPT !.category = Other]
   ELSE i : i \in items}

\* [f(k) for k in keywords]
lowered_keywords(keywords) == [j \in DOMAIN keywords |-> str_lower(keywords[j])]
\* x in keywords
list_contains(x, keywords) == \E j \in DOMAIN keywords : keywords[j] = x

\* add_keyword_to_category that appends the keyword as given, unconditionally
add_keyword_as_given(category, keyword) ==
  [category EXCEPT !.keywords = Append(category.keywords, keyword)]

add_keyword_to_category(category, keyword) ==
  IF ~list_contains(str_lower(keyword), lowered_keywords(category.keywords))
  THEN [category EXCEPT !.keywords = Append(category.keywords, str_lower(keyword))]
  ELSE category

remove_keyword_from_category(category, keyword) ==
  [category EXCEPT
     !.keywords = SelectSeq(category.keywords,
                            LAMBDA k : str_lower(k) # str_lower(keyword))]

\* The loop without its early return: the last matching row wins
RECURSIVE categorize_for_tenant_last_match(_, _, _)
categorize_for_tenant_last_match(rows, i, name_lower) ==
  IF i > Len(rows) THEN Other
  ELSE LET later == categorize_for_tenant_last_match(rows, i + 1, name_lower)
       IN IF later # Other THEN later
          ELSE IF \E j \in DOMAIN rows[i].keywords :
                    str_in(str_lower(rows[i].keywords[j]), name_lower)
               THEN rows[i].name
               ELSE Other

\* The loop of categorize_item_for_tenant over the tenant's rows, from row i on
RECURSIVE categorize_for_tenant_from(_, _, _)
categorize_for_tenant_from(rows, i, name_lower) ==
  IF i > Len(rows) THEN Other
  ELSE IF \E j \in DOMAIN rows[i].keywords :
            str_in(str_lower(rows[i].keywords[j]), name_lower)
       THEN rows[i].name
       ELSE categorize_for_tenant_from(rows, i + 1, name_lower)

categorize_item_for_tenant(tenant_id, name) ==
  categorize_for_tenant_from(
    get_categories_by_tenant(get_or_create_default_categories(tenant_id), tenant_id),
    1, str_lower(name))


(***************************************************************************)
(* services/shopping/routes.py: one action per request.  resp is the HTTP  *)
(* response: its status, the response schema and the fields of it that the *)
(* callers read.                                                           *)
(***************************************************************************)
Response(status, schema) ==
  [status |-> status, schema |-> schema, item |-> None, merged |-> FALSE,
   previous_quantity |-> None, duplicate_detected |-> FALSE,
   recently_completed |-> None, hours_ago |-> None,
   items_cleared |-> None, items_remaining |-> None,
   name |-> None, category |-> None, normalized |-> None, returned |-> None]

\* raise HTTPException(status_code=404, detail=...)
ListNotFound == Response(404, "Shopping list not found")
ItemNotFound == Response(404, "Item not found")
\* an exception no handler catches
InternalServerError == Response(500, "Internal Server Error")

\* The response add_item builds from crud.add_item's result r
AddItemResponse(r) ==
  IF r.raised THEN InternalServerError
  ELSE IF r.recently_completed # None /\ r.item = None
    THEN [Response(200, "AddItemResponse") EXCEPT
            !.duplicate_detected = TRUE,
            !.recently_completed = Some(Val(r.recently_completed).id),
            !.hours_ago = Some(now - Val(Val(r.recently_completed).checked_at))]
  ELSE [Response(200, "AddItemResponse") EXCEPT
            !.item = Some(Val(r.item).id),
            !.merged = r.was_merged,
            !.previous_quantity = r.previous_quantity]

\* POST /lists/{list_id}/items
AddItem(tenant_id, list_id, request) ==
  /\ IF get_list_by_id(list_id, tenant_id) = None
     THEN /\ items' = items
          /\ nextId' = nextId
          /\ resp' = ListNotFound
     ELSE LET r == crud_add_item(list_id, tenant_id, request, request.force_add)
              created == ~r.raised /\ r.item # None /\ ~r.was_merged
          IN /\ items' = r.store
             /\ nextId' = IF created THEN nextId + 1 ELSE nextId
             /\ resp' = AddItemResponse(r)
  /\ UNCHANGED <<calendar_vars, auth_vars, nextListId, inflight, lists, categories, nextCategoryId, now>>

\* A body with no Field constraint at all
ShoppingItemCreate_unconstrained(body) == TRUE

\* schemas.ShoppingItemCreate: the Field constraints a request body has to
\* meet to become the handler's request argument
ShoppingItemCreate(body) ==
  /\ Len(body.name) >= 1
  /\ Len(body.name) <= 200
  /\ body.quantity # None => Val(body.quantity) >= 0
  /\ body.unit # None => Len(Val(body.unit)) <= 50
  /\ body.category # None => Len(Val(body.category)) <= 100
  /\ body.source # None => Val(body.source) \in {"manual", "alexa", "recipe", "multiple"}

RequestValidationError == Response(422, "RequestValidationError")

\* POST /lists/{list_id}/items with its body: the body is validated against
\* ShoppingItemCreate before the handler is called
PostAddItem(tenant_id, list_id, body) ==
  IF ShoppingItemCreate(body)
  THEN AddItem(tenant_id, list_id, body)
  ELSE /\ resp' = RequestValidationError
       /\ UNCHANGED <<calendar_vars, auth_vars, nextListId, inflight, lists, items, categories, nextId, nextCategoryId, now>>

(***************************************************************************)
(* POST /lists/{list_id}/items, suspended at its awaits.  Each request     *)
(* has its own session: what it read stays as read until its commit.       *)
(***************************************************************************)
\* The add-item requests that can be in flight together
Requests == {"r1", "r2"}

Idle ==
  [pc |-> "idle", tenant_id |-> "", list_id |-> 0, request |-> None,
   existing |-> None, recently_completed |-> None]

\* The UPDATE the merge branch commits: quantity and source as computed from
\* the row the session read.  StaleDataError when the row is gone.
commit_merge(existing, item_data) ==
  LET quantity == decimal_or_one(existing.quantity)
                    + opt_decimal_or_one(item_data.quantity)
      current == {i \in items : i.id = existing.id}
      merged == [existing EXCEPT !.quantity = quantity, !.source = "multiple"]
  IN IF current = {}
     THEN AddResult(TRUE, None, FALSE, None, None, items)
     ELSE AddResult(FALSE, Some(merged), TRUE, Some(existing.quantity), None,
                    {IF i.id = existing.id
                     THEN [i EXCEPT !.quantity = quantity, !.source = "multiple"]
                     ELSE i : i \in items})

\* A commit that looks for the duplicate again, as a serial add_item would
commit_create_looking_again(list_id, tenant_id, item_data, recently_completed, force_add) ==
  crud_add_item(list_id, tenant_id, item_data, force_add)

\* The INSERT (and the DELETE of the force branch) the create branch commits
commit_create(list_id, tenant_id, item_data, recently_completed, force_add) ==
  crud_create_item(list_id, tenant_id, item_data,
                   normalize_item_name_of[item_data.name],
                   IF recently_completed # None /\ force_add
                   THEN {i \in items : i.id = Val(recently_completed).id}
                   ELSE {})

\* Up to "existing = await find_duplicate_item(...)"
AddItemFindDuplicate(p, tenant_id, list_id, request) ==
  /\ inflight[p].pc = "idle"
  /\ IF get_list_by_id(list_id, tenant_id) = None
     THEN /\ resp' = ListNotFound
          /\ inflight' = inflight
     ELSE LET existing == find_duplicate_item(list_id, normalize_item_name_of[request.name])
          IN IF existing = MultipleResultsFound
             THEN /\ resp' = InternalServerError
                  /\ inflight' = inflight
             ELSE /\ resp' = resp
                  /\ inflight' = [inflight EXCEPT ![p] =
                       [pc |-> IF existing # None THEN "merge" ELSE "find_recent",
                        tenant_id |-> tenant_id, list_id |-> list_id,
                        request |-> Some(request), existing |-> existing,
                        recently_completed |-> None]]
  /\ UNCHANGED <<calendar_vars, auth_vars, nextListId, lists, items, categories, nextId, nextCategoryId, now>>

\* "recently_completed = await find_recently_completed_item(...)"
AddItemFindRecent(p) ==
  /\ inflight[p].pc = "find_recent"
  /\ LET f == inflight[p]
         request == Val(f.request)
         recently_completed ==
           find_recently_completed_item(f.list_id, normalize_item_name_of[request.name])
     IN IF recently_completed = MultipleResultsFound
        THEN /\ resp' = InternalServerError
             /\ inflight' = [inflight EXCEPT ![p] = Idle]
        ELSE IF recently_completed # None /\ ~request.force_add
        THEN /\ resp' = AddItemResponse(crud_duplicate_prompt(recently_completed))
             /\ inflight' = [inflight EXCEPT ![p] = Idle]
        ELSE /\ resp' = resp
             /\ inflight' = [inflight EXCEPT ![p] =
                  [f EXCEPT !.pc = "create", !.recently_completed = recently_completed]]
  /\ UNCHANGED <<calendar_vars, auth_vars, nextListId, lists, items, categories, nextId, nextCategoryId, now>>

\* "await db.commit()" of the merge branch or of the create branch
AddItemCommit(p) ==
  /\ inflight[p].pc \in {"merge", "create"}
  /\ LET f == inflight[p]
         request == Val(f.request)
         r == IF f.pc = "merge"
              THEN commit_merge(Val(f.existing), request)
              ELSE commit_create(f.list_id, f.tenant_id, request,
                                 f.recently_completed, request.force_add)
     IN /\ items' = r.store
        /\ nextId' = IF f.pc = "create" THEN nextId + 1 ELSE nextId
        /\ resp' = AddItemResponse(r)
        /\ inflight' = [inflight EXCEPT ![p] = Idle]
  /\ UNCHANGED <<calendar_vars, auth_vars, nextListId, lists, categories, nextCategoryId, now>>

\* The item lookup shared by the update, delete and toggle routes
route_item(tenant_id, list_id, item_id) ==
  LET item == get_item_by_id(item_id, tenant_id)
  IN IF item = None \/ Val(item).list_id # list_id THEN None ELSE item

\* PUT /lists/{list_id}/items/{item_id}
UpdateItem(tenant_id, list_id, item_id, request) ==
  LET item == route_item(tenant_id, list_id, item_id)
  IN /\ IF item = None
        THEN /\ items' = items
             /\ resp' = ItemNotFound
        ELSE /\ items' = replace_row(items, crud_update_item(Val(item), request))
             /\ resp' = [Response(200, "ShoppingItemResponse") EXCEPT
                           !.item = Some(item_id)]
     /\ UNCHANGED <<calendar_vars, auth_vars, nextListId, inflight, lists, categories, nextId, nextCategoryId, now>>

\* DELETE /lists/{list_id}/items/{item_id}
DeleteItem(tenant_id, list_id, item_id) ==
  LET item == route_item(tenant_id, list_id, item_id)
  IN /\ IF item = None
        THEN /\ items' = items
             /\ resp' = ItemNotFound
        ELSE /\ items' = items \ {Val(item)}
             /\ resp' = Response(200, "MessageResponse")
     /\ UNCHANGED <<calendar_vars, auth_vars, nextListId, inflight, lists, categories, nextId, nextCategoryId, now>>

\* POST /lists/{list_id}/items/{item_id}/toggle
ToggleItem(tenant_id, list_id, item_id) ==
  LET item == route_item(tenant_id, list_id, item_id)
  IN /\ IF item = None
        THEN /\ items' = items
             /\ resp' = ItemNotFound
        ELSE /\ items' = replace_row(items, crud_toggle_item(Val(item)))
             /\ resp' = [Response(200, "ToggleResponse") EXCEPT
                           !.item = Some(item_id)]
     /\ UNCHANGED <<calendar_vars, auth_vars, nextListId, inflight, lists, categories, nextId, nextCategoryId, now>>

\* POST /lists/{list_id}/complete
CompleteShop(tenant_id, list_id) ==
  LET in_list == {i \in items : i.list_id = list_id /\ i.tenant_id = tenant_id}
      items_completed == Cardinality({i \in in_list : i.checked = FALSE})
      total_items == Cardinality(in_list)
  IN /\ IF get_list_by_id(list_id, tenant_id) = None
        THEN /\ items' = items
             /\ resp' = ListNotFound
        ELSE /\ items' = crud_complete_shop(list_id, tenant_id)
             /\ resp' = [Response(200, "CompleteShopResponse") EXCEPT
                           !.items_cleared = Some(items_completed),
                           !.items_remaining = Some(total_items - items_completed)]
     /\ UNCHANGED <<calendar_vars, auth_vars, nextListId, inflight, lists, categories, nextId, nextCategoryId, now>>

\* GET /categories/full
GetCategoriesFull(tenant_id) ==
  LET seeded == get_or_create_default_categories(tenant_id)
  IN /\ categories' = seeded
     /\ nextCategoryId' = IF seeded = categories THEN nextCategoryId
                          ELSE nextCategoryId + Len(DEFAULT_CATEGORIES)
     /\ resp' = Response(200, "list[ShoppingCategoryResponse]")
     /\ UNCHANGED <<calendar_vars, auth_vars, nextListId, inflight, lists, items, nextId, now>>

\* POST /categories
CreateCategory(tenant_id, request) ==
  LET existing == get_category_by_name(request.name, tenant_id)
  IN /\ IF existing = MultipleResultsFound
        THEN /\ resp' = InternalServerError
             /\ UNCHANGED <<categories, nextCategoryId>>
        ELSE IF existing # None
        THEN /\ resp' = Response(400, "Category already exists")
             /\ UNCHANGED <<categories, nextCategoryId>>
        ELSE /\ categories' = categories \cup {crud_create_category(tenant_id, request)}
             /\ nextCategoryId' = nextCategoryId + 1
             /\ resp' = [Response(201, "ShoppingCategoryResponse") EXCEPT
                           !.category = Some(request.name)]
     /\ UNCHANGED <<calendar_vars, auth_vars, nextListId, inflight, lists, items, nextId, now>>

CategoryNotFound == Response(404, "Category not found")

\* PUT /categories/{category_id}
UpdateCategory(tenant_id, category_id, request) ==
  LET category == get_category_by_id(category_id, tenant_id)
      existing == get_category_by_name(Val(request.name), tenant_id)
  IN /\ IF category = None
        THEN /\ categories' = categories
             /\ resp' = CategoryNotFound
        ELSE IF request.name # None /\ Val(request.name) # <<>>
                /\ Val(request.name) # Val(category).name
                /\ existing = MultipleResultsFound
        THEN /\ categories' = categories
             /\ resp' = InternalServerError
        ELSE IF request.name # None /\ Val(request.name) # <<>>
                /\ Val(request.name) # Val(category).name
                /\ existing # None
        THEN /\ categories' = categories
             /\ resp' = Response(400, "Category already exists")
        ELSE /\ categories' = replace_row(categories,
                                crud_update_category(Val(category), request))
             /\ resp' = [Response(200, "ShoppingCategoryResponse") EXCEPT
                           !.category = Some(crud_update_category(Val(category), request).name)]
     /\ UNCHANGED <<calendar_vars, auth_vars, nextListId, inflight, lists, items, nextId, nextCategoryId, now>>

\* DELETE /categories/{category_id}
DeleteCategory(tenant_id, category_id) ==
  LET category == get_category_by_id(category_id, tenant_id)
  IN /\ IF category = None
        THEN /\ resp' = CategoryNotFound
             /\ UNCHANGED <<categories, items>>
        ELSE IF Val(category).name = Other
        THEN /\ resp' = Response(400, "Cannot delete the 'Other' category")
             /\ UNCHANGED <<categories, items>>
        ELSE /\ items' = delete_category_items(Val(category), tenant_id)
             /\ categories' = categories \ {Val(category)}
             /\ resp' = [Response(200, "MessageResponse") EXCEPT
                           !.category = Some(Val(category).name)]
     /\ UNCHANGED <<calendar_vars, auth_vars, nextListId, inflight, lists, nextId, nextCategoryId, now>>

\* POST /categories/{category_id}/keywords
AddKeyword(tenant_id, category_id, keyword) ==
  LET category == get_category_by_id(category_id, tenant_id)
  IN /\ IF category = None
        THEN /\ categories' = categories
             /\ resp' = CategoryNotFound
        ELSE /\ categories' = replace_row(categories,
                                add_keyword_to_category(Val(category), keyword))
             /\ resp' = [Response(200, "ShoppingCategoryResponse") EXCEPT
                           !.category = Some(Val(category).name)]
     /\ UNCHANGED <<calendar_vars, auth_vars, nextListId, inflight, lists, items, nextId, nextCategoryId, now>>

\* DELETE /categories/{category_id}/keywords/{keyword}
RemoveKeyword(tenant_id, category_id, keyword) ==
  LET category == get_category_by_id(category_id, tenant_id)
  IN /\ IF category = None
        THEN /\ categories' = categories
             /\ resp' = CategoryNotFound
        ELSE /\ categories' = replace_row(categories,
                                remove_keyword_from_category(Val(category), keyword))
             /\ resp' = [Response(200, "ShoppingCategoryResponse") EXCEPT
                           !.category = Some(Val(category).name)]
     /\ UNCHANGED <<calendar_vars, auth_vars, nextListId, inflight, lists, items, nextId, nextCategoryId, now>>

\* A call of crud.categorize_item_for_tenant(db, tenant_id, name)
CategorizeForTenant(tenant_id, name) ==
  LET seeded == get_or_create_default_categories(tenant_id)
  IN /\ categories' = seeded
     /\ nextCategoryId' = IF seeded = categories THEN nextCategoryId
                          ELSE nextCategoryId + Len(DEFAULT_CATEGORIES)
     /\ resp' = [Response(200, "categorize_item_for_tenant") EXCEPT
                   !.name = Some(name),
                   !.category = Some(categorize_item_for_tenant(tenant_id, name))]
     /\ UNCHANGED <<calendar_vars, auth_vars, nextListId, inflight, lists, items, nextId, now>>

\* A call of utils.categorize_item(name)
CategorizeItem(name) ==
  /\ resp' = [Response(200, "categorize_item") EXCEPT
                !.name = Some(name),
                !.category = Some(categorize_item_of[name])]
  /\ UNCHANGED <<calendar_vars, auth_vars, nextListId, inflight, lists, items, categories, nextId, nextCategoryId, now>>

\* Time passes between requests
Tick ==
  /\ now + TickHours <= MaxTicks * TickHours
  /\ now' = now + TickHours
  /\ UNCHANGED <<calendar_vars, auth_vars, nextListId, inflight, lists, items, categories, nextId, nextCategoryId, resp>>

(***************************************************************************)
(* Shopping lists: crud.create_list, crud.get_or_create_default_list and   *)
(* their routes                                                            *)
(***************************************************************************)
get_default_list(tenant_id) ==
  scalar_one_or_none({l \in lists : l.tenant_id = tenant_id /\ l.is_default = TRUE})

\* The list rows and the returned row of a crud call, or raised
ListResult(raised, list, store) == [raised |-> raised, list |-> list, store |-> store]

\* create_list that adds the row without touching the existing default
crud_create_list_keeping_default(tenant_id, is_default) ==
  LET shopping_list == [id |-> nextListId, tenant_id |-> tenant_id, is_default |-> is_default]
  IN ListResult(FALSE, Some(shopping_list), lists \cup {shopping_list})

crud_create_list(tenant_id, is_default) ==
  LET existing == IF is_default THEN get_default_list(tenant_id) ELSE None
      shopping_list == [id |-> nextListId, tenant_id |-> tenant_id, is_default |-> is_default]
  IN IF existing = MultipleResultsFound
     THEN ListResult(TRUE, None, lists)
     ELSE ListResult(FALSE, Some(shopping_list),
            {IF existing # None /\ l = Val(existing)
             THEN [l EXCEPT !.is_default = FALSE] ELSE l : l \in lists}
            \cup {shopping_list})

get_or_create_default_list(tenant_id) ==
  LET default_list == get_default_list(tenant_id)
  IN IF default_list = MultipleResultsFound
     THEN ListResult(TRUE, None, lists)
     ELSE IF default_list # None
     THEN ListResult(FALSE, default_list, lists)
     ELSE crud_create_list(tenant_id, TRUE)

\* The response of a list route to a crud result
ListResponse(status, schema, r) ==
  IF r.raised THEN InternalServerError
  ELSE [Response(status, schema) EXCEPT !.returned = Some(Val(r.list).id)]

\* POST /lists
CreateShoppingList(tenant_id, is_default) ==
  LET r == crud_create_list(tenant_id, is_default)
  IN /\ lists' = r.store
     /\ nextListId' = IF r.raised THEN nextListId ELSE nextListId + 1
     /\ resp' = ListResponse(201, "ShoppingListSummary", r)
     /\ UNCHANGED <<calendar_vars, auth_vars, inflight, items, categories, nextId,
                    nextCategoryId, now>>

\* GET /default
GetDefaultList(tenant_id) ==
  LET r == get_or_create_default_list(tenant_id)
  IN /\ lists' = r.store
     /\ nextListId' = IF r.store = lists THEN nextListId ELSE nextListId + 1
     /\ resp' = ListResponse(200, "ShoppingListResponse", r)
     /\ UNCHANGED <<calendar_vars, auth_vars, inflight, items, categories, nextId,
                    nextCategoryId, now>>

(***************************************************************************)
(* services/calendar/crud.py and services/calendar/routes.py               *)
(***************************************************************************)
EventIds == 1..(nextEventId - 1)

\* CalendarCRUD.get_event
get_event(tenant_id, event_id) ==
  scalar_one_or_none({e \in events : e.id = event_id /\ e.tenant_id = tenant_id})

\* A DELETE statement without the tenant condition
delete_event_of_any_tenant(tenant_id, event_id) ==
  LET matched == {e \in events : e.id = event_id}
  IN [store |-> events \ matched, rowcount |-> Cardinality(matched)]

\* CalendarCRUD.delete_event: the DELETE statement and its rowcount
delete_event(tenant_id, event_id) ==
  LET matched == {e \in events : e.id = event_id /\ e.tenant_id = tenant_id}
  IN [store |-> events \ matched, rowcount |-> Cardinality(matched)]

\* A call of CalendarCRUD.create_event(db, tenant_id, event)
CreateEvent(tenant_id, title) ==
  /\ events' = events \cup {[id |-> nextEventId, tenant_id |-> tenant_id, title |-> title]}
  /\ nextEventId' = nextEventId + 1
  /\ resp' = [Response(200, "CalendarCRUD.create_event") EXCEPT
                !.returned = Some(nextEventId)]
  /\ UNCHANGED <<auth_vars, nextListId, inflight, lists, items, categories, nextId,
                 nextCategoryId, now>>

\* A call of CalendarCRUD.get_event(db, tenant_id, event_id)
GetEvent(tenant_id, event_id) ==
  /\ resp' = [Response(200, "CalendarCRUD.get_event") EXCEPT
                !.returned = get_event(tenant_id, event_id)]
  /\ UNCHANGED <<calendar_vars, auth_vars, nextListId, inflight, lists, items, categories,
                 nextId, nextCategoryId, now>>

\* A call of CalendarCRUD.delete_event(db, tenant_id, event_id)
DeleteEvent(tenant_id, event_id) ==
  LET r == delete_event(tenant_id, event_id)
  IN /\ events' = r.store
     /\ resp' = [Response(200, "CalendarCRUD.delete_event") EXCEPT
                   !.returned = Some(r.rowcount > 0)]
     /\ UNCHANGED <<nextEventId, auth_vars, nextListId, inflight, lists, items, categories,
                    nextId, nextCategoryId, now>>

\* DELETE /events/{event_id}: the route selects the event by id alone
DeleteCalendarEvent(event_id) ==
  LET event == scalar_one_or_none({e \in events : e.id = event_id})
  IN /\ IF event = None
        THEN /\ events' = events
             /\ resp' = Response(404, "Event not found")
        ELSE /\ events' = events \ {Val(event)}
             /\ resp' = Response(204, "None")
     /\ UNCHANGED <<nextEventId, auth_vars, nextListId, inflight, lists, items, categories,
                    nextId, nextCategoryId, now>>

(***************************************************************************)
(* services/auth/security.py, services/auth/crud.py and                    *)
(* services/auth/routes.py                                                 *)
(***************************************************************************)
REFRESH_TOKEN_EXPIRE_DAYS == 7

UserIds == {u.id : u \in users}

\* create_refresh_token({"sub": user_id}): the JWT of the claims sub, exp,
\* iat and type, signed with HS256.  jwt.encode writes exp and iat as whole
\* seconds, so the token is a function of the user and the second.
create_refresh_token(user_id) ==
  [sub |-> user_id,
   exp |-> seconds + REFRESH_TOKEN_EXPIRE_DAYS * 86400,
   iat |-> seconds,
   type |-> "refresh"]

\* hash_token: sha256 of the token, taken as injective
hash_token(token) == <<"sha256", token>>

get_user_by_id(user_id) == scalar_one_or_none({u \in users : u.id = user_id})

\* store_refresh_token: the row it inserts
store_refresh_token(user_id, token, expires_at) ==
  [id |-> nextTokenId, user_id |-> user_id, token_hash |-> hash_token(token),
   expires_at |-> expires_at, revoked_at |-> None]

\* get_refresh_token: the valid (non-revoked, non-expired) row of the token
get_refresh_token(token, user_id) ==
  scalar_one_or_none({r \in refresh_tokens :
    /\ r.token_hash = hash_token(token)
    /\ r.user_id = user_id
    /\ r.revoked_at = None
    /\ r.expires_at > seconds})

\* revoke_refresh_token: the rows afterwards, or raised
revoke_refresh_token(token, user_id) ==
  LET token_record == get_refresh_token(token, user_id)
  IN IF token_record = MultipleResultsFound
     THEN [raised |-> TRUE, store |-> refresh_tokens]
     ELSE IF token_record # None
     THEN [raised |-> FALSE,
           store |-> {IF r = Val(token_record)
                      THEN [r EXCEPT !.revoked_at = Some(seconds)] ELSE r :
                      r \in refresh_tokens}]
     ELSE [raised |-> FALSE, store |-> refresh_tokens]

revoke_all_user_tokens(user_id) ==
  {IF r.user_id = user_id /\ r.revoked_at = None
   THEN [r EXCEPT !.revoked_at = Some(seconds)] ELSE r : r \in refresh_tokens}

Unauthorized(detail) == Response(401, detail)

\* POST /login with the email and password of user_id
Login(user_id) ==
  LET user == get_user_by_id(user_id)
      refresh_token == create_refresh_token(user_id)
      expires_at == seconds + REFRESH_TOKEN_EXPIRE_DAYS * 86400
  IN /\ IF user = None \/ ~Val(user).is_active
        THEN /\ resp' = Unauthorized("Invalid email or password")
             /\ UNCHANGED <<refresh_tokens, nextTokenId>>
        ELSE /\ refresh_tokens' = refresh_tokens
                  \cup {store_refresh_token(user_id, refresh_token, expires_at)}
             /\ nextTokenId' = nextTokenId + 1
             /\ resp' = [Response(200, "TokenResponse") EXCEPT
                           !.returned = Some(refresh_token)]
     /\ UNCHANGED <<users, seconds, calendar_vars, nextListId, inflight, lists, items,
                    categories, nextId, nextCategoryId, now>>

\* POST /refresh presenting a token this service signed
Refresh(token) ==
  LET token_record == get_refresh_token(token, token.sub)
      user == get_user_by_id(token.sub)
  IN /\ resp' = IF token.exp <= seconds
                THEN Unauthorized("Invalid refresh token")
                ELSE IF token.type # "refresh"
                THEN Unauthorized("Invalid token type")
                ELSE IF token_record = MultipleResultsFound
                THEN InternalServerError
                ELSE IF token_record = None
                THEN Unauthorized("Refresh token not found or expired")
                ELSE IF user = None \/ ~Val(user).is_active
                THEN Unauthorized("User not found or inactive")
                ELSE Response(200, "AccessTokenResponse")
     /\ UNCHANGED <<auth_vars, calendar_vars, nextListId, inflight, lists, items,
                    categories, nextId, nextCategoryId, now>>

\* POST /logout by user_id (get_current_user: an active user) with a token
Logout(user_id, token) ==
  LET current_user == get_user_by_id(user_id)
      r == revoke_refresh_token(token, user_id)
  IN /\ IF current_user = None \/ ~Val(current_user).is_active
        THEN /\ resp' = Unauthorized("User account is disabled")
             /\ refresh_tokens' = refresh_tokens
        ELSE /\ refresh_tokens' = r.store
             /\ resp' = IF r.raised THEN InternalServerError
                        ELSE Response(200, "Successfully logged out")
     /\ UNCHANGED <<users, nextTokenId, seconds, calendar_vars, nextListId, inflight, lists,
                    items, categories, nextId, nextCategoryId, now>>

\* The checks of require_role(["admin"]) and of the user_id path parameter
\* shared by PUT and DELETE /users/{user_id}: the response that refuses, or None
admin_refusal(admin_id, user_id) ==
  LET current_user == get_user_by_id(admin_id)
      user == get_user_by_id(user_id)
  IN IF current_user = None \/ ~Val(current_user).is_active
     THEN Some(Unauthorized("User account is disabled"))
     ELSE IF Val(current_user).role # "admin"
     THEN Some(Response(403, "Insufficient permissions"))
     ELSE IF user = None \/ Val(user).tenant_id # Val(current_user).tenant_id
     THEN Some(Response(404, "User not found"))
     ELSE None

\* DELETE /users/{user_id}: deactivate the user and revoke its tokens
DeleteUser(admin_id, user_id) ==
  LET refusal == IF admin_refusal(admin_id, user_id) = None /\ user_id = admin_id
                 THEN Some(Response(400, "Cannot deactivate yourself"))
                 ELSE admin_refusal(admin_id, user_id)
  IN /\ IF refusal # None
        THEN /\ resp' = Val(refusal)
             /\ UNCHANGED <<users, refresh_tokens>>
        ELSE /\ users' = {IF u.id = user_id THEN [u EXCEPT !.is_active = FALSE] ELSE u :
                          u \in users}
             /\ refresh_tokens' = revoke_all_user_tokens(user_id)
             /\ resp' = Response(200, "User deactivated successfully")
     /\ UNCHANGED <<nextTokenId, seconds, calendar_vars, nextListId, inflight, lists, items,
                    categories, nextId, nextCategoryId, now>>

\* PUT /users/{user_id} with is_active in the body
UpdateUser(admin_id, user_id, is_active) ==
  LET refusal == admin_refusal(admin_id, user_id)
  IN /\ IF refusal # None
        THEN /\ resp' = Val(refusal)
             /\ users' = users
        ELSE /\ users' = {IF u.id = user_id THEN [u EXCEPT !.is_active = is_active] ELSE u :
                          u \in users}
             /\ resp' = Response(200, "UserResponse")
     /\ UNCHANGED <<refresh_tokens, nextTokenId, seconds, calendar_vars, nextListId, inflight,
                    lists, items, categories, nextId, nextCategoryId, now>>

\* The users the database starts with: an admin and a member of tenant t1
InitialUsers ==
  {[id |-> "admin", tenant_id |-> "t1", role |-> "admin", is_active |-> TRUE],
   [id |-> "member", tenant_id |-> "t1", role |-> "member", is_active |-> TRUE]}

Init ==
  /\ lists = {[id |-> 1, tenant_id |-> "t1", is_default |-> TRUE],
              [id |-> 2, tenant_id |-> "t1", is_default |-> FALSE]}
  /\ items = {}
  /\ categories = {}
  /\ nextCategoryId = 1
  /\ nextId = 1
  /\ now = 0
  /\ resp = Response(200, "none")
  /\ inflight = [p \in Requests |-> Idle]
  /\ nextListId = 3
  /\ events = {}
  /\ nextEventId = 1
  /\ users = InitialUsers
  /\ refresh_tokens = {}
  /\ nextTokenId = 1
  /\ seconds = 0

\* The bounds of a specification: rows ever created, quantities reached
Within(max_items, max_qty) ==
  /\ nextId' <= max_items + 1
  /\ \A i \in items' : i.quantity <= max_qty

Next ==
  \/ \E l \in ListIds, r \in AddRequests :
       AddItem("t1", l, r) /\ Within(MaxItems, MaxQty)
  \/ \E l \in ListIds, i \in ItemIds, r \in UpdateRequests : UpdateItem("t1", l, i, r)
  \/ \E l \in ListIds, i \in ItemIds : DeleteItem("t1", l, i)
  \/ \E l \in ListIds, i \in ItemIds : ToggleItem("t1", l, i)
  \/ \E t \in Tenants, l \in ListIds : CompleteShop(t, l)
  \/ Tick

Spec == Init /\ [][Next]_vars

(***************************************************************************)
(* SpecSameHour: the requests of one hour on the first list, by its owner, *)
(* with up to MaxRows rows.                                                *)
(***************************************************************************)
PlainRequests ==
  [name : {Milk, Bread}, quantity : {None}, unit : {None},
   category : {None}, source : {None}, force_add : BOOLEAN]

NextSameHour ==
  \/ \E r \in PlainRequests : AddItem("t1", 1, r) /\ Within(MaxRows, MaxQty)
  \/ \E i \in ItemIds, r \in UpdateRequests : UpdateItem("t1", 1, i, r)
  \/ \E i \in ItemIds : ToggleItem("t1", 1, i)

SpecSameHour == Init /\ [][NextSameHour]_vars


(***************************************************************************)
(* SpecQuantities: additions with and without a quantity to the first      *)
(* list, and the requests that let a name be added afresh.                 *)
(***************************************************************************)
MaxQuantityItems == 2
MaxQuantity == 6

QuantityRequests ==
  [name : {Milk, MilkVariant}, quantity : {None, Some(0), Some(2)}, unit : {None},
   category : {None}, source : {None}, force_add : {FALSE}]

NextQuantities ==
  \/ \E r \in QuantityRequests :
       AddItem("t1", 1, r) /\ Within(MaxQuantityItems, MaxQuantity)
  \/ \E i \in ItemIds : ToggleItem("t1", 1, i)
  \/ \E i \in ItemIds : DeleteItem("t1", 1, i)

SpecQuantities == Init /\ [][NextQuantities]_vars

(***************************************************************************)
(* SpecBodies: request bodies that do and do not validate, sent by either  *)
(* tenant to lists that are and are not its own.                           *)
(***************************************************************************)
MaxBodyItems == 2
MaxBodyQty == 4

Empty == <<>>
Bodies ==
  [name : {Milk, Empty}, quantity : {None, Some(-1), Some(2)}, unit : {None},
   category : {None}, source : {None}, force_add : {FALSE}]
\* The two lists of t1 and an id that names no list
BodyListIds == ListIds \cup {3}

NextBodies ==
  \/ \E t \in Tenants, l \in BodyListIds, b \in Bodies :
       PostAddItem(t, l, b) /\ Within(MaxBodyItems, MaxBodyQty)
  \/ \E l \in ListIds, i \in ItemIds : ToggleItem("t1", l, i)
  \/ \E l \in ListIds, i \in ItemIds : DeleteItem("t1", l, i)

SpecBodies == Init /\ [][NextBodies]_vars

(***************************************************************************)
(* SpecBlank: bodies whose name is a word or a single space, sent to the   *)
(* first list.                                                             *)
(***************************************************************************)
MaxBlankItems == 2
MaxBlankQty == 2

\* A name of one space
Blank == <<" ">>
BlankBodies ==
  [name : {Milk, Blank}, quantity : {None}, unit : {None},
   category : {None}, source : {None}, force_add : {FALSE}]

NextBlank ==
  \/ \E b \in BlankBodies :
       PostAddItem("t1", 1, b) /\ Within(MaxBlankItems, MaxBlankQty)
  \/ \E i \in ItemIds : ToggleItem("t1", 1, i)
  \/ \E i \in ItemIds : DeleteItem("t1", 1, i)

SpecBlank == Init /\ [][NextBlank]_vars

(***************************************************************************)
(* SpecMerge: requests with and without a unit and a category, added to    *)
(* the first list and merged into what it holds.                           *)
(***************************************************************************)
MaxMergeItems == 2
MaxMergeQty == 3

Litre == <<"l">>
MergeRequests ==
  [name : {Milk, MilkVariant, Bread}, quantity : {None, Some(2)}, unit : {None, Some(Litre)},
   category : {None, Some(Treats)}, source : {None}, force_add : {FALSE}]

NextMerge ==
  \/ \E r \in MergeRequests :
       AddItem("t1", 1, r) /\ Within(MaxMergeItems, MaxMergeQty)
  \/ \E i \in ItemIds : ToggleItem("t1", 1, i)

SpecMerge == Init /\ [][NextMerge]_vars

(***************************************************************************)
(* SpecConcurrent: add-item requests on the first list that overlap, and   *)
(* toggles between their steps.                                            *)
(***************************************************************************)
MaxConcurrentItems == 2
MaxConcurrentQty == 3

ConcurrentRequests ==
  [name : {Milk, MilkVariant}, quantity : {None}, unit : {None},
   category : {None}, source : {None}, force_add : {FALSE}]

NextConcurrent ==
  \/ \E p \in Requests, r \in ConcurrentRequests : AddItemFindDuplicate(p, "t1", 1, r)
  \/ \E p \in Requests : AddItemFindRecent(p)
  \/ \E p \in Requests :
       AddItemCommit(p) /\ Within(MaxConcurrentItems, MaxConcurrentQty)
  \/ \E i \in ItemIds : ToggleItem("t1", 1, i)

SpecConcurrent == Init /\ [][NextConcurrent]_vars

(***************************************************************************)
(* Properties of the duplicate reconciler                                  *)
(***************************************************************************)
\* The rows of a list that match a normalized name
Matching(list_id, name_normalized) ==
  {i \in items : i.list_id = list_id /\ i.name_normalized = name_normalized}
UncheckedMatching(list_id, name_normalized) ==
  {i \in Matching(list_id, name_normalized) : i.checked = FALSE}
\* The checked rows that match, with checked_at less than 24 hours ago
RecentlyCheckedMatching(list_id, name_normalized) ==
  {i \in Matching(list_id, name_normalized) :
     /\ i.checked = TRUE
     /\ i.checked_at # None
     /\ now - Val(i.checked_at) < 24}
\* The amount a request adds: a missing quantity counts as 1
Addition(request) == IF request.quantity = None THEN 1 ELSE Val(request.quantity)
\* The same requests as in AddRequests, with either value of force_add
Forced(request) == [request EXCEPT !.force_add = TRUE]
Unforced(request) == [request EXCEPT !.force_add = FALSE]

\* C1: in every reachable state each shopping list holds at most one
\* unchecked item per name_normalized.
C1_OneUncheckedPerName ==
  \A i \in items, j \in items :
    (/\ i.list_id = j.list_id
     /\ i.name_normalized = j.name_normalized
     /\ i.checked = FALSE
     /\ j.checked = FALSE) => i.id = j.id

\* C2: when a name is added to a list with no matching item and a case or
\* whitespace variant of it is added next, the second add_item creates no
\* row, leaves exactly one unchecked item of that normalized name, sets its
\* source to "multiple", makes its quantity the sum of both additions, and
\* returns Merged with the quantity the item had before the second addition.
C2_VariantMerges ==
  [][\A t \in Tenants, l \in ListIds, first \in QuantityRequests, second \in QuantityRequests :
       (/\ get_list_by_id(l, t) # None
        /\ normalize_item_name_of[first.name] = normalize_item_name_of[second.name]
        /\ Matching(l, normalize_item_name_of[first.name]) = {}
        /\ AddItem(t, l, first))
       => LET nn == normalize_item_name_of[first.name]
              created == CHOOSE i \in items' : i.id = nextId
              merge == (crud_add_item(l, t, second, second.force_add))'
          IN /\ merge.raised = FALSE
             /\ merge.was_merged = TRUE
             /\ {i.id : i \in merge.store} = {i.id : i \in items'}
             /\ Cardinality({i \in merge.store :
                   i.list_id = l /\ i.name_normalized = nn /\ i.checked = FALSE}) = 1
             /\ Val(merge.item).id = created.id
             /\ Val(merge.item).source = "multiple"
             /\ Val(merge.item).quantity = Addition(first) + Addition(second)
             /\ merge.previous_quantity = Some(created.quantity)]_vars

\* C3: when add_item finds no unchecked match, finds a checked item of the
\* same name_normalized inside the 24-hour window, and force_add is false,
\* the response is a normal one (no error) that reports that item as a
\* recently completed duplicate, and no item is created, modified or deleted.
C3_PromptLeavesStore ==
  [][\A t \in Tenants, l \in ListIds, r \in AddRequests :
       LET nn == normalize_item_name_of[r.name]
           found == find_recently_completed_item(l, nn)
       IN (/\ get_list_by_id(l, t) # None
           /\ r.force_add = FALSE
           /\ find_duplicate_item(l, nn) = None
           /\ found # None
           /\ found # MultipleResultsFound
           /\ AddItem(t, l, r))
          => /\ resp'.status = 200
             /\ resp'.schema = "AddItemResponse"
             /\ resp'.duplicate_detected = TRUE
             /\ resp'.item = None
             /\ resp'.merged = FALSE
             /\ resp'.recently_completed = Some(Val(found).id)
             /\ Val(found) \in RecentlyCheckedMatching(l, nn)
             /\ items' = items
             /\ nextId' = nextId
             /\ lists' = lists
             /\ categories' = categories]_vars

\* A prompt has just been answered for a checked item that is still stored
C3_Prompted ==
  /\ resp.schema = "AddItemResponse"
  /\ resp.duplicate_detected = TRUE
  /\ \E i \in items : resp.recently_completed = Some(i.id) /\ i.checked = TRUE

\* C4: given a checked item inside the 24-hour window and no unchecked
\* match, add_item with force_add=false followed by add_item with
\* force_add=true for the same name ends with the old checked row deleted
\* and exactly one new unchecked row of that normalized name, the deletion
\* and the creation taking effect in the same step.
C4_ForceReplaces ==
  [][\A t \in Tenants, l \in ListIds, r \in AddRequests :
       LET nn == normalize_item_name_of[r.name]
       IN (/\ get_list_by_id(l, t) # None
           /\ UncheckedMatching(l, nn) = {}
           /\ RecentlyCheckedMatching(l, nn) # {}
           /\ AddItem(t, l, Unforced(r)))
          => LET forced == (crud_add_item(l, t, Forced(r), TRUE))'
                 old == RecentlyCheckedMatching(l, nn)
                 new == {i \in forced.store :
                           i.list_id = l /\ i.name_normalized = nn /\ i.checked = FALSE}
             IN /\ items' = items
                /\ forced.raised = FALSE
                /\ old \cap forced.store = {}
                /\ Cardinality(new) = 1
                /\ \A i \in new : i.id \notin {o.id : o \in items}]_vars

\* C5: if the only item of the list that matches the normalized name is
\* checked, with checked_at more than 24 hours before the call, add_item
\* with force_add=false answers Created with a new unchecked item, never a
\* duplicate prompt, and keeps the old checked row.
C5_StaleIsCreated ==
  [][\A t \in Tenants, l \in ListIds, r \in AddRequests :
       LET nn == normalize_item_name_of[r.name]
       IN (/\ get_list_by_id(l, t) # None
           /\ r.force_add = FALSE
           /\ Cardinality(Matching(l, nn)) = 1
           /\ \A i \in Matching(l, nn) :
                /\ i.checked = TRUE
                /\ i.checked_at # None
                /\ now - Val(i.checked_at) > 24
           /\ AddItem(t, l, r))
          => /\ resp'.status = 200
             /\ resp'.duplicate_detected = FALSE
             /\ resp'.recently_completed = None
             /\ resp'.merged = FALSE
             /\ resp'.item = Some(nextId)
             /\ items \subseteq items'
             /\ \E n \in items' :
                  /\ items' = items \cup {n}
                  /\ n.id = nextId
                  /\ n.list_id = l
                  /\ n.name_normalized = nn
                  /\ n.checked = FALSE]_vars

\* An item has just been created next to a row of the same name that was
\* checked more than 24 hours ago
C5_CreatedBesideStale ==
  /\ resp.schema = "AddItemResponse"
  /\ resp.merged = FALSE
  /\ \E n \in items, o \in items :
       /\ resp.item = Some(n.id)
       /\ n.checked = FALSE
       /\ o.id # n.id
       /\ Matching(n.list_id, n.name_normalized) = {n, o}
       /\ o.checked = TRUE
       /\ o.checked_at # None
       /\ now - Val(o.checked_at) > 24

\* C6: when a list holds both an unchecked item and a recently checked item
\* of the same name_normalized, add_item answers Merged for either value of
\* force_add, and the checked item is neither deleted nor reported as a
\* duplicate.
C6_MergeBeforeRecent ==
  [][\A t \in Tenants, l \in ListIds, r \in AddRequests :
       LET nn == normalize_item_name_of[r.name]
       IN (/\ get_list_by_id(l, t) # None
           /\ UncheckedMatching(l, nn) # {}
           /\ RecentlyCheckedMatching(l, nn) # {}
           /\ AddItem(t, l, r))
          => /\ resp'.status = 200
             /\ resp'.merged = TRUE
             /\ resp'.duplicate_detected = FALSE
             /\ resp'.recently_completed = None
             /\ RecentlyCheckedMatching(l, nn) \subseteq items']_vars

\* C10: every shopping item has checked = false exactly when its checked_at
\* is null, in every reachable state.
C10_CheckedIffCheckedAt ==
  \A i \in items : (i.checked = FALSE) <=> (i.checked_at = None)

\* An item has just been unchecked again while another item stays checked
C10_UncheckedAgain ==
  /\ resp.schema = "ToggleResponse"
  /\ \E i \in items, j \in items :
       /\ resp.item = Some(i.id)
       /\ i.checked = FALSE
       /\ i.checked_at = None
       /\ j.checked = TRUE
       /\ j.checked_at # None

(***************************************************************************)
(* SpecCategories: the category requests, the two categorizers, and the    *)
(* additions of the first list's owner.                                    *)
(***************************************************************************)
MaxCategoryItems == 1
MaxCategoryQty == 1

CategoryCreates == {[name |-> Treats, keywords |-> << <<"X","Y","Z">> >>]}
KeywordInputs == {<<"M","I","L","K">>}
CategoryTargets ==
  {c.id : c \in {r \in categories : r.tenant_id = "t1" /\ r.name \in {Produce, Dairy}}}
CategoryAddRequests ==
  [name : {Milk}, quantity : {None}, unit : {None},
   category : {None, Some(Treats)}, source : {None}, force_add : {FALSE}]

NextCategories ==
  \/ GetCategoriesFull("t1")
  \/ \E d \in CategoryCreates : CreateCategory("t1", d)
  \/ \E t \in Tenants, c \in CategoryTargets, k \in KeywordInputs : AddKeyword(t, c, k)
  \/ \E c \in CategoryTargets, k \in KeywordInputs : RemoveKeyword("t1", c, k)
  \/ \E n \in CategorizeNames : CategorizeForTenant("t1", n)
  \/ \E n \in CategorizeNames : CategorizeItem(n)
  \/ \E r \in CategoryAddRequests :
       AddItem("t1", 1, r) /\ Within(MaxCategoryItems, MaxCategoryQty)

SpecCategories == Init /\ [][NextCategories]_vars

(***************************************************************************)
(* SpecCategoryAdmin: one tenant creates, renames and deletes categories   *)
(* and adds items that carry them.                                         *)
(***************************************************************************)
MaxCategoryIds == 15

Sweets == <<"S", "w", "e", "e", "t", "s">>
\* ShoppingCategoryUpdate: name, keywords
CategoryUpdates ==
  {[name |-> Some(Treats), keywords |-> None],
   [name |-> Some(Sweets), keywords |-> None]}
AdminTargets ==
  {c.id : c \in {r \in categories : r.name \in {Dairy, Other, Treats, Sweets}}}

NextCategoryAdmin ==
  \/ GetCategoriesFull("t1") /\ nextCategoryId' <= MaxCategoryIds + 1
  \/ \E d \in CategoryCreates :
       CreateCategory("t1", d) /\ nextCategoryId' <= MaxCategoryIds + 1
  \/ \E c \in AdminTargets, u \in CategoryUpdates : UpdateCategory("t1", c, u)
  \/ \E t \in Tenants, c \in AdminTargets : DeleteCategory(t, c)
  \/ \E r \in CategoryAddRequests :
       AddItem("t1", 1, r) /\ Within(MaxCategoryItems, MaxCategoryQty)

SpecCategoryAdmin == Init /\ [][NextCategoryAdmin]_vars

(***************************************************************************)
(* SpecKeywords: keywords in several letter cases added to and removed     *)
(* from custom categories.                                                 *)
(***************************************************************************)
KeywordCategories ==
  {[name |-> Treats, keywords |-> << <<"X","Y","Z">> >>],
   [name |-> Sweets, keywords |-> <<>>]}
KeywordCases ==
  {<<"x","y","z">>, <<"X","y","z">>, <<"M","I","L","K">>, <<"M","i","l","k">>}
KeywordTargets == {c.id : c \in categories}

NextKeywords ==
  \/ \E d \in KeywordCategories : CreateCategory("t1", d)
  \/ \E t \in Tenants, c \in KeywordTargets, k \in KeywordCases : AddKeyword(t, c, k)
  \/ \E c \in KeywordTargets, k \in KeywordCases : RemoveKeyword("t1", c, k)

SpecKeywords == Init /\ [][NextKeywords]_vars

(***************************************************************************)
(* SpecNormalize: utils.normalize_item_name applied to a name, and to its  *)
(* own result.                                                             *)
(***************************************************************************)
MaxNameLen == 3

NameAlphabet == {" ", "\n", "M", "m"}
NormalizeNames == UNION {[1..n -> NameAlphabet] : n \in 0..MaxNameLen}

InitNormalize ==
  /\ lists = {[id |-> 1, tenant_id |-> "t1", is_default |-> TRUE],
              [id |-> 2, tenant_id |-> "t1", is_default |-> FALSE]}
  /\ items = {}
  /\ categories = {}
  /\ nextCategoryId = 1
  /\ nextId = 1
  /\ now = 0
  /\ \E n \in NormalizeNames : resp = [Response(200, "name") EXCEPT !.name = Some(n)]
  /\ inflight = [p \in Requests |-> Idle]
  /\ nextListId = 3
  /\ events = {}
  /\ nextEventId = 1
  /\ users = InitialUsers
  /\ refresh_tokens = {}
  /\ nextTokenId = 1
  /\ seconds = 0

\* normalize_item_name(name)
NormalizeItemName ==
  /\ resp.schema = "name"
  /\ resp' = [resp EXCEPT !.schema = "normalize_item_name",
                          !.normalized = Some(normalize_item_name(Val(resp.name)))]
  /\ UNCHANGED <<calendar_vars, auth_vars, nextListId, inflight, lists, items, categories, nextId, nextCategoryId, now>>

\* normalize_item_name(normalize_item_name(name)): the function applied to
\* what it returned
NormalizeItemNameAgain ==
  /\ resp.schema = "normalize_item_name"
  /\ resp' = [resp EXCEPT !.schema = "normalize_item_name twice",
                          !.normalized = Some(normalize_item_name(Val(resp.normalized)))]
  /\ UNCHANGED <<calendar_vars, auth_vars, nextListId, inflight, lists, items, categories, nextId, nextCategoryId, now>>

NextNormalize == NormalizeItemName \/ NormalizeItemNameAgain

SpecNormalize == InitNormalize /\ [][NextNormalize]_vars

(***************************************************************************)
(* SpecToggles: items of exactly equal names added, toggled and completed  *)
(* on the first list while time passes; no item is renamed.                *)
(***************************************************************************)
NextToggles ==
  \/ \E r \in PlainRequests : AddItem("t1", 1, r) /\ Within(MaxItems, MaxQty)
  \/ \E i \in ItemIds : ToggleItem("t1", 1, i)
  \/ CompleteShop("t1", 1)
  \/ Tick

SpecToggles == Init /\ [][NextToggles]_vars

(***************************************************************************)
(* SpecLists: lists created by both tenants, as default and not, and the   *)
(* default list asked for.                                                 *)
(***************************************************************************)
MaxLists == 5

NextLists ==
  \/ \E t \in Tenants, d \in BOOLEAN :
       CreateShoppingList(t, d) /\ nextListId <= MaxLists
  \/ \E t \in Tenants : GetDefaultList(t) /\ nextListId' <= MaxLists + 1

SpecLists == Init /\ [][NextLists]_vars

(***************************************************************************)
(* SpecTenants: both tenants have lists, items and a custom category, and  *)
(* each sends item and category requests naming any list, item or          *)
(* category id.                                                            *)
(***************************************************************************)
MaxTenantItems == 2
MaxTenantQty == 1
MaxTenantCategoryIds == 2

TenantRequests ==
  [name : {Milk}, quantity : {None}, unit : {None},
   category : {Some(Treats)}, source : {None}, force_add : {FALSE}]
TenantCategoryIds == {c.id : c \in categories}
\* The default list of each tenant
TenantListIds == {l.id : l \in {x \in lists : x.is_default}}

NextTenants ==
  \/ \E t \in Tenants : GetDefaultList(t)
  \/ \E t \in Tenants, l \in TenantListIds, r \in TenantRequests :
       AddItem(t, l, r) /\ Within(MaxTenantItems, MaxTenantQty)
  \/ \E t \in Tenants, l \in TenantListIds, i \in ItemIds, r \in UpdateRequests :
       UpdateItem(t, l, i, r)
  \/ \E t \in Tenants, l \in TenantListIds, i \in ItemIds : DeleteItem(t, l, i)
  \/ \E t \in Tenants, l \in TenantListIds, i \in ItemIds : ToggleItem(t, l, i)
  \/ \E t \in Tenants, l \in TenantListIds : CompleteShop(t, l)
  \/ \E t \in Tenants, d \in CategoryCreates :
       CreateCategory(t, d) /\ nextCategoryId' <= MaxTenantCategoryIds + 1
  \/ \E t \in Tenants, c \in TenantCategoryIds : DeleteCategory(t, c)

SpecTenants == Init /\ [][NextTenants]_vars

(***************************************************************************)
(* SpecAuth: logins, refreshes and logouts of the two users, the admin     *)
(* deactivating and reactivating them, while seconds pass.                 *)
(***************************************************************************)
MaxTokens == 3
MaxSeconds == 1

\* The refresh tokens this service has signed and handed out
IssuedTokens == {r.token_hash[2] : r \in refresh_tokens}

\* A second passes
TickSecond ==
  /\ seconds < MaxSeconds
  /\ seconds' = seconds + 1
  /\ UNCHANGED <<users, refresh_tokens, nextTokenId, resp, calendar_vars, nextListId,
                 inflight, lists, items, categories, nextId, nextCategoryId, now>>

NextAuth ==
  \/ \E u \in UserIds : Login(u) /\ nextTokenId' <= MaxTokens + 1
  \/ \E t \in IssuedTokens : Refresh(t)
  \/ \E u \in UserIds, t \in IssuedTokens : Logout(u, t)
  \/ \E a \in UserIds, u \in UserIds : DeleteUser(a, u)
  \/ \E a \in UserIds, u \in UserIds : UpdateUser(a, u, TRUE)
  \/ TickSecond

SpecAuth == Init /\ [][NextAuth]_vars

(***************************************************************************)
(* SpecCalendar: events of both tenants created, read and deleted.         *)
(***************************************************************************)
MaxEvents == 3

Dentist == <<"D","e","n","t","i","s","t">>

NextCalendar ==
  \/ \E t \in Tenants : CreateEvent(t, Dentist) /\ nextEventId <= MaxEvents
  \/ \E t \in Tenants, e \in 1..MaxEvents : GetEvent(t, e)
  \/ \E t \in Tenants, e \in 1..MaxEvents : DeleteEvent(t, e)
  \/ \E e \in 1..MaxEvents : DeleteCalendarEvent(e)

SpecCalendar == Init /\ [][NextCalendar]_vars

(***************************************************************************)
(* Properties of the categorizer                                           *)
(***************************************************************************)
\* keyword occurs in name at some offset, letter case ignored
OccursIgnoringCase(keyword, name) ==
  \E offset \in 0..(Len(name) - Len(keyword)) :
    \A j \in 1..Len(keyword) : lower_char(keyword[j]) = lower_char(name[offset + j])
\* rule has a keyword that occurs in name
RuleMatches(rule, name) ==
  \E j \in DOMAIN rule.keywords : OccursIgnoringCase(rule.keywords[j], name)
\* The category of the first rule that matches, "Other" without one
FirstMatch(rules, name) ==
  LET matching == {i \in DOMAIN rules : RuleMatches(rules[i], name)}
  IN IF matching = {} THEN Other
     ELSE rules[CHOOSE i \in matching : \A k \in matching : i <= k].name
\* The tenant's rule set: its category rows in sort_order, seeded with the
\* defaults when the tenant has none
TenantRules(tenant_id) ==
  get_categories_by_tenant(get_or_create_default_categories(tenant_id), tenant_id)

\* C7: when add_item creates a new item, its category is the explicit
\* category of the request if one was given, and otherwise the result of the
\* categorizer on the requesting tenant's own rules (its category rows in
\* sort_order), so that keyword changes reach the items created later.
C7_CategoryFromTenantRules ==
  [][\A t \in Tenants, l \in TenantListIds, r \in CategoryAddRequests :
       (/\ AddItem(t, l, r)
        /\ resp'.status = 200
        /\ resp'.item = Some(nextId))
       => \A n \in items' :
            n.id = nextId =>
              n.category = IF r.category # None
                           THEN Val(r.category)
                           ELSE FirstMatch(TenantRules(t), r.name)]_vars

\* C8: categorize returns the category of the first rule, in rule order,
\* that has a keyword occurring as a case-insensitive substring of the name,
\* and "Other" when no rule has one; a later rule never wins over an
\* earlier matching rule.
C8_FirstMatchingRule ==
  [][/\ \A n \in CategorizeNames :
          (resp'.name = Some(n) /\ CategorizeItem(n))
          => resp'.category = Some(FirstMatch(CATEGORY_KEYWORDS, n))
     /\ \A t \in Tenants, n \in CategorizeNames :
          (resp'.name = Some(n) /\ CategorizeForTenant(t, n))
          => resp'.category = Some(FirstMatch(TenantRules(t), n))]_vars

\* The tenant categorizer has answered for a name that keywords of two of
\* the tenant's rules match, with the category of the earlier rule
C8_EarlierRuleAnswered ==
  /\ resp.schema = "categorize_item_for_tenant"
  /\ resp.name # None
  /\ \E i \in DOMAIN TenantRules("t1"), k \in DOMAIN TenantRules("t1") :
       /\ i < k
       /\ RuleMatches(TenantRules("t1")[i], Val(resp.name))
       /\ RuleMatches(TenantRules("t1")[k], Val(resp.name))
       /\ resp.category = Some(TenantRules("t1")[i].name)

\* C9: with the default rules in their fixed order (Produce, Dairy, Meat,
\* Fish, Bakery, Frozen, Drinks, Pantry, Eggs, Household, Baby, Pet, Other),
\* categorize("Tinned Tomatoes") returns "Pantry".
C9_TinnedTomatoesIsPantry ==
  [][CategorizeItem(TinnedTomatoes) => resp'.category = Some(Pantry)]_vars

(***************************************************************************)
(* Properties of overlapping requests                                      *)
(***************************************************************************)
\* C11: two add_item requests for the same list and the same name_normalized
\* that both look for an unchecked duplicate before either commits both take
\* the create path: a request whose lookup found no duplicate adds an
\* unchecked row at its commit, also when the other request has committed a
\* row of that name in between, so two unchecked rows that share the
\* normalized name are reached.
C11_BothCreate ==
  [][\A p \in Requests :
       (inflight[p].pc = "create" /\ AddItemCommit(p))
       => LET l == inflight[p].list_id
              nn == normalize_item_name_of[Val(inflight[p].request).name]
              before == UncheckedMatching(l, nn)
              after == {i \in items' : /\ i.list_id = l
                                       /\ i.name_normalized = nn
                                       /\ i.checked = FALSE}
          IN /\ resp'.status = 200
             /\ resp'.merged = FALSE
             /\ resp'.item = Some(nextId)
             /\ before \subseteq after
             /\ Cardinality(after) = Cardinality(before) + 1]_vars

\* Both overlapping requests have committed: two unchecked rows share the
\* normalized name on one list
C11_TwoUncheckedRows ==
  /\ \A p \in Requests : inflight[p].pc = "idle"
  /\ resp.schema = "AddItemResponse"
  /\ resp.merged = FALSE
  /\ \E i \in items, j \in items :
       /\ i.id # j.id
       /\ i.list_id = j.list_id
       /\ i.name_normalized = j.name_normalized
       /\ i.checked = FALSE
       /\ j.checked = FALSE

(***************************************************************************)
(* Properties of quantities, categories and validation                     *)
(***************************************************************************)
\* C12: in add_item only a missing quantity counts as 1: for every supplied
\* quantity q >= 0, q = 0 included, a merge sets the item's quantity to its
\* old quantity plus q and a creation stores the quantity q.
C12_SuppliedQuantityKept ==
  [][\A t \in Tenants, l \in TenantListIds, r \in QuantityRequests :
       (/\ r.quantity # None
        /\ AddItem(t, l, r)
        /\ resp'.status = 200
        /\ resp'.item # None)
       => \A n \in items' :
            n.id = Val(resp'.item) =>
              IF resp'.merged
              THEN \E o \in items : o.id = n.id /\ n.quantity = o.quantity + Val(r.quantity)
              ELSE n.quantity = Val(r.quantity)]_vars

\* C13: deleting a category sets the category of every item of that tenant
\* that carried the category's name to "Other" and removes the category row,
\* in one step; right afterwards no item of the tenant has the deleted
\* category's name as its category.
C13_DeleteMovesItemsToOther ==
  [][\A t \in Tenants, c \in AdminTargets :
       (/\ resp'.schema = "MessageResponse"
        /\ DeleteCategory(t, c)
        /\ resp'.status = 200)
       => LET category == Val(get_category_by_id(c, t))
          IN /\ categories' = categories \ {category}
             /\ category \in categories
             /\ {i.id : i \in items'} = {i.id : i \in items}
             /\ \A i \in items :
                  IF i.tenant_id = t /\ i.category = category.name
                  THEN [i EXCEPT !.category = Other] \in items'
                  ELSE i \in items'
             /\ \A n \in items' :
                  n.tenant_id = t => n.category # category.name]_vars

\* A category that an item carried has just been deleted: the item is now
\* in "Other" and the tenant has no category row of the deleted name
C13_ItemMovedToOther ==
  /\ resp.schema = "MessageResponse"
  /\ resp.status = 200
  /\ resp.category # None
  /\ \E i \in items : i.tenant_id = "t1" /\ i.category = Other
  /\ \A c \in categories : c.tenant_id = "t1" => c.name # Val(resp.category)

\* The rows a tenant holds
RowsOf(tenant_id) == {c \in categories : c.tenant_id = tenant_id}
\* The calls that seed: GET /categories/full and categorize_item_for_tenant
SeedingCall(tenant_id) ==
  \/ resp'.schema = "list[ShoppingCategoryResponse]" /\ GetCategoriesFull(tenant_id)
  \/ /\ resp'.schema = "categorize_item_for_tenant"
     /\ \E n \in CategorizeNames : CategorizeForTenant(tenant_id, n)

\* C14: default-category seeding is idempotent per tenant: once a tenant has
\* any category rows, a further call of get_or_create_default_categories or
\* categorize_item_for_tenant adds no row and changes none, so the defaults
\* are seeded at most once; a tenant without rows gets exactly the defaults.
C14_SeedingIdempotent ==
  [][\A t \in Tenants :
       SeedingCall(t)
       => /\ RowsOf(t) # {} => categories' = categories /\ nextCategoryId' = nextCategoryId
          /\ RowsOf(t) = {} =>
               /\ categories \subseteq categories'
               /\ \A c \in categories' \ categories : c.tenant_id = t /\ c.is_default
               /\ Cardinality(categories' \ categories) = Len(DEFAULT_CATEGORIES)
               /\ {c.name : c \in categories' \ categories}
                    = {DEFAULT_CATEGORIES[k].name : k \in DOMAIN DEFAULT_CATEGORIES}
          /\ \A a \in RowsOf(t)', b \in RowsOf(t)' :
               (a.is_default /\ b.is_default /\ a.name = b.name) => a.id = b.id]_vars

\* categorize_item_for_tenant has been called for a tenant whose seeded rows
\* were changed before the call: the changed row is still as changed
C14_CalledAfterSeeding ==
  /\ resp.schema = "categorize_item_for_tenant"
  /\ Cardinality(RowsOf("t1")) >= Len(DEFAULT_CATEGORIES)
  /\ \E c \in RowsOf("t1") :
       /\ c.is_default
       /\ c.name = Dairy
       /\ \A j \in DOMAIN c.keywords : c.keywords[j] # <<"m", "i", "l", "k">>

\* Two keywords are the same up to letter case
SameIgnoringCase(a, b) ==
  /\ Len(a) = Len(b)
  /\ \A j \in 1..Len(a) : lower_char(a[j]) = lower_char(b[j])

\* C15: add_keyword_to_category stores the keyword in lowercase and is
\* idempotent up to case: if the category already holds the keyword in any
\* letter case its keyword list is left unchanged; otherwise exactly the
\* lowercased keyword is appended and the existing keywords keep their order.
C15_KeywordAddedLowercaseOnce ==
  [][\A t \in Tenants, c \in KeywordTargets, k \in KeywordCases :
       (/\ resp'.schema = "ShoppingCategoryResponse"
        /\ AddKeyword(t, c, k))
       => LET old == Val(get_category_by_id(c, t))
              held == \E j \in DOMAIN old.keywords : SameIgnoringCase(old.keywords[j], k)
          IN \E new \in categories' :
               /\ new.id = c
               /\ categories' = (categories \ {old}) \cup {new}
               /\ new = [old EXCEPT !.keywords = new.keywords]
               /\ IF held
                  THEN new.keywords = old.keywords
                  ELSE /\ Len(new.keywords) = Len(old.keywords) + 1
                       /\ SubSeq(new.keywords, 1, Len(old.keywords)) = old.keywords
                       /\ SameIgnoringCase(new.keywords[Len(new.keywords)], k)
                       /\ \A j \in 1..Len(k) :
                            new.keywords[Len(new.keywords)][j] \notin
                              {UpperCase[u] : u \in DOMAIN UpperCase}]_vars

\* A category created with the keyword "XYZ" has had "milk" appended in
\* lowercase, and holds no second keyword "xyz"
C15_AppendedAfterUppercase ==
  /\ resp.schema = "ShoppingCategoryResponse"
  /\ resp.category = Some(Treats)
  /\ \E c \in categories :
       /\ c.name = Treats
       /\ c.keywords = << <<"X","Y","Z">>, <<"m","i","l","k">> >>

\* category holds keyword, in some letter case
HoldsKeyword(category, keyword) ==
  \E j \in DOMAIN category.keywords : SameIgnoringCase(category.keywords[j], keyword)

\* Two categories of one tenant share a keyword that occurs in name
ShareMatchingKeyword(a, b, name) ==
  /\ a.tenant_id = b.tenant_id
  /\ a.id # b.id
  /\ \E j \in DOMAIN a.keywords :
       /\ OccursIgnoringCase(a.keywords[j], name)
       /\ HoldsKeyword(b, a.keywords[j])

\* C16: keyword uniqueness across categories is not enforced: adding a
\* keyword to a category is never rejected because another category of the
\* same tenant already holds it; and when two categories share a keyword,
\* categorizing a name matching that keyword returns the category with the
\* lower sort_order (never the one with the higher sort_order, and that one
\* exactly when no category ordered before it matches the name).
C16_SharedKeywordLowerSortOrder ==
  [][/\ \A t \in Tenants, c \in CategoryTargets, k \in KeywordInputs :
          (/\ get_category_by_id(c, t) # None
           /\ \E o \in categories : o.tenant_id = t /\ o.id # c /\ HoldsKeyword(o, k)
           /\ AddKeyword(t, c, k))
          => /\ resp'.status = 200
             /\ \E new \in categories' : new.id = c /\ HoldsKeyword(new, k)
     /\ \A t \in Tenants, n \in CategorizeNames :
          (resp'.name = Some(n) /\ CategorizeForTenant(t, n))
          => \A a \in RowsOf(t)', b \in RowsOf(t)' :
               (a.sort_order < b.sort_order /\ ShareMatchingKeyword(a, b, n))
               => /\ resp'.category # Some(b.name)
                  /\ (\A e \in RowsOf(t)' :
                        e.sort_order < a.sort_order => ~RuleMatches(e, n))
                     => resp'.category = Some(a.name)]_vars

\* Produce and Dairy of one tenant both hold the keyword "milk", and the
\* tenant categorizer has answered Produce for the name "Milk"
C16_ProduceWinsSharedMilk ==
  /\ resp.schema = "categorize_item_for_tenant"
  /\ resp.name = Some(Milk)
  /\ resp.category = Some(Produce)
  /\ \E a \in categories, b \in categories :
       /\ a.name = Produce
       /\ b.name = Dairy
       /\ a.sort_order < b.sort_order
       /\ ShareMatchingKeyword(a, b, Milk)

\* C17: an add-item request with a negative quantity or an empty name is
\* rejected with a validation error before reconciliation runs (whatever the
\* list and the store), and the store is unchanged by the rejected request.
C17_InvalidBodyRejected ==
  [][\A t \in Tenants, l \in BodyListIds, b \in Bodies :
       (/\ \/ b.name = Empty
           \/ b.quantity # None /\ Val(b.quantity) < 0
        /\ PostAddItem(t, l, b))
       => /\ resp'.status = 422
          /\ resp'.item = None
          /\ UNCHANGED <<lists, items, categories, nextId, nextCategoryId>>]_vars

\* A body was rejected while the list held an item
C17_RejectedBesideItems ==
  /\ resp = RequestValidationError
  /\ \E i \in items : i.list_id = 1 /\ i.checked = FALSE

\* C18: an add-item request whose list_id does not name a list of the
\* requesting tenant (no such list, or a list of another tenant) yields a
\* NotFound error, and no item is created, merged or deleted.
C18_ForeignListNotFound ==
  [][\A t \in Tenants, l \in BodyListIds, b \in Bodies :
       (/\ ~\E x \in lists : x.id = l /\ x.tenant_id = t
        /\ PostAddItem(t, l, b))
       => /\ items' = items
          /\ nextId' = nextId
          /\ ShoppingItemCreate(b) => resp' = ListNotFound]_vars

\* The list of t1 holds an item and a request was answered NotFound
C18_NotFoundBesideItems ==
  /\ resp = ListNotFound
  /\ \E i \in items : i.tenant_id = "t1" /\ i.checked = FALSE

\* C19: within a tenant no two ShoppingCategory rows have the same name, in
\* every state reachable by seeding, create_category and update_category
\* requests executed one at a time through the API; a create or a rename to
\* a name another row of the tenant has is rejected and changes nothing.
C19_CategoryNameUniquePerTenant ==
  /\ [](\A a \in categories, b \in categories :
          (a.tenant_id = b.tenant_id /\ a.name = b.name) => a.id = b.id)
  /\ [][/\ \A t \in Tenants, d \in CategoryCreates :
             (/\ \E o \in RowsOf(t) : o.name = d.name
              /\ CreateCategory(t, d))
             => /\ resp'.status = 400
                /\ UNCHANGED <<categories, nextCategoryId, items>>
        /\ \A t \in Tenants, c \in AdminTargets, u \in CategoryUpdates :
             (/\ u.name # None
              /\ \E o \in RowsOf(t) : o.name = Val(u.name) /\ o.id # c
              /\ \E o \in RowsOf(t) : o.id = c
              /\ UpdateCategory(t, c, u))
             => /\ resp'.status = 400
                /\ UNCHANGED <<categories, nextCategoryId, items>>]_vars

\* A create or rename was rejected for a tenant that has the seeded rows and
\* custom rows named Treats and Sweets
C19_RejectedBesideSeededAndCustom ==
  /\ resp.status = 400
  /\ resp.schema = "Category already exists"
  /\ \E a \in RowsOf("t1"), b \in RowsOf("t1"), c \in RowsOf("t1") :
       /\ a.name = Treats
       /\ b.name = Sweets
       /\ c.name = Other /\ c.is_default

\* C20: name normalization is idempotent: for every name,
\* normalize(normalize(name)) == normalize(name).
C20_NormalizeIdempotent ==
  [][NormalizeItemNameAgain => resp'.normalized = resp.normalized]_vars

\* The name " M\n" was normalized to "m" and the result normalized again
C20_NormalizedTwice ==
  /\ resp.schema = "normalize_item_name twice"
  /\ resp.name = Some(<<" ", "M", "\n">>)
  /\ resp.normalized = Some(<<"m">>)

(***************************************************************************)
(* Properties of the calendar                                              *)
(***************************************************************************)
\* C21: CalendarCRUD.delete_event(tenant, id) returns true exactly when an
\* event with that id existed for that tenant; afterwards get_event(tenant,
\* id) returns none, and an event belonging to a different tenant is never
\* removed by the call.
C21_DeleteEventOwnTenantOnly ==
  [][\A t \in Tenants, e \in 1..MaxEvents :
       (resp'.schema = "CalendarCRUD.delete_event" /\ DeleteEvent(t, e))
       => /\ resp'.returned = Some(\E x \in events : x.id = e /\ x.tenant_id = t)
          /\ \A x \in events' : ~(x.id = e /\ x.tenant_id = t)
          /\ (get_event(t, e))' = None
          /\ \A x \in events : x.tenant_id # t => x \in events'
          /\ events' \subseteq events]_vars

\* delete_event returned false for a tenant while an event of the other
\* tenant is stored, after an earlier event was removed
C21_DeleteRefusedOtherTenantKept ==
  /\ resp.schema = "CalendarCRUD.delete_event"
  /\ resp.returned = Some(FALSE)
  /\ nextEventId > 2
  /\ \E x \in events : x.tenant_id = "t2" /\ x.id = 1
  /\ ~\E x \in events : x.tenant_id = "t1"

(***************************************************************************)
(* Properties of completing a shop, of stored items and of tenants         *)
(***************************************************************************)
\* C22: complete_shop(list, tenant) leaves no unchecked item in that list,
\* gives every item that was unchecked the same new checked_at, leaves the
\* checked_at of already-checked items and all items of other lists
\* unchanged, and returns (number of items that were unchecked before the
\* call, total number of items in the list).
C22_CompleteShopChecksAll ==
  [][\A t \in Tenants, l \in TenantListIds :
       (/\ resp'.schema = "CompleteShopResponse"
        /\ CompleteShop(t, l))
       => LET before == {i \in items : i.list_id = l}
              unchecked == {i \in before : i.checked = FALSE}
              after == {i \in items' : i.list_id = l}
          IN /\ \A i \in after : i.checked = TRUE
             /\ {i.id : i \in after} = {i.id : i \in before}
             /\ \A i \in after :
                  IF i.id \in {u.id : u \in unchecked}
                  THEN /\ i.checked_at = Some(now)
                       /\ \E u \in unchecked :
                            i = [u EXCEPT !.checked = TRUE, !.checked_at = Some(now)]
                  ELSE i \in before
             /\ \A i \in items : i.list_id # l => i \in items'
             /\ \A i \in items' : i.list_id # l => i \in items
             /\ resp'.items_cleared = Some(Cardinality(unchecked))
             /\ Val(resp'.items_cleared) + Val(resp'.items_remaining)
                  = Cardinality(after)]_vars

\* A shop was completed for one unchecked item beside an item checked at an
\* earlier hour: both are checked and their checked_at differ
C22_CompletedBesideEarlierChecked ==
  /\ resp.schema = "CompleteShopResponse"
  /\ resp.items_cleared = Some(1)
  /\ resp.items_remaining = Some(1)
  /\ \E a \in items, b \in items :
       /\ a.list_id = b.list_id
       /\ a.checked /\ b.checked
       /\ a.checked_at = Some(now)
       /\ b.checked_at # None /\ Val(b.checked_at) < now

\* C23: in every state reachable by add_item, update_item (renames),
\* toggle_item and complete_shop executed one at a time, each list holds at
\* most one checked item per name_normalized with checked_at inside the
\* 24-hour window, so the single-row lookup of find_recently_completed_item
\* never matches several rows and never raises in add_item.
C23_OneRecentCheckedPerName ==
  \A l \in TenantListIds, n \in ItemNames :
    /\ Cardinality(RecentlyCheckedMatching(l, normalize_item_name_of[n])) <= 1
    /\ find_recently_completed_item(l, normalize_item_name_of[n]) # MultipleResultsFound

\* C24: once a tenant's categories have been seeded (it has rows with
\* is_default set), the tenant always has a category row named "Other", in
\* every state reachable through the category API.
C24_OtherAlwaysExists ==
  \A t \in Tenants :
    (\E c \in RowsOf(t) : c.is_default) => \E c \in RowsOf(t) : c.name = Other

\* The default lists of a tenant
DefaultLists(tenant_id) ==
  {l \in lists : l.tenant_id = tenant_id /\ l.is_default = TRUE}

\* C29: each tenant has at most one shopping list with is_default = true
\* after any sequence of create_list (with or without is_default) and
\* get_or_create_default_list calls executed one at a time; creating a new
\* default list clears the flag on the previous default.
C29_OneDefaultListPerTenant ==
  /\ [](\A t \in Tenants : Cardinality(DefaultLists(t)) <= 1)
  /\ [][\A t \in Tenants :
          (resp'.schema = "ShoppingListSummary" /\ CreateShoppingList(t, TRUE))
          => /\ DefaultLists(t)' = {[id |-> nextListId, tenant_id |-> t, is_default |-> TRUE]}
             /\ \A l \in DefaultLists(t) : [l EXCEPT !.is_default = FALSE] \in lists'
             /\ {l.id : l \in lists'} = {l.id : l \in lists} \cup {nextListId}
             /\ \A l \in lists : l \notin DefaultLists(t) => l \in lists']_vars

\* The first list of t1 has lost the flag to a list created as default
C29_DefaultMoved ==
  /\ resp.schema = "ShoppingListSummary"
  /\ [id |-> 1, tenant_id |-> "t1", is_default |-> FALSE] \in lists
  /\ \E l \in DefaultLists("t1") : resp.returned = Some(l.id)
  /\ \E l \in DefaultLists("t2") : TRUE

\* A request of tenant_id through the item API or DELETE /categories/{id}
ItemApiRequest(tenant_id) ==
  \/ \E l \in TenantListIds, r \in TenantRequests : AddItem(tenant_id, l, r)
  \/ \E l \in TenantListIds, i \in ItemIds, r \in UpdateRequests : UpdateItem(tenant_id, l, i, r)
  \/ \E l \in TenantListIds, i \in ItemIds : DeleteItem(tenant_id, l, i)
  \/ \E l \in TenantListIds, i \in ItemIds : ToggleItem(tenant_id, l, i)
  \/ \E l \in TenantListIds : CompleteShop(tenant_id, l)
  \/ \E c \in TenantCategoryIds : DeleteCategory(tenant_id, c)

\* C25: every item's tenant_id equals the tenant_id of the list it belongs
\* to, and a request made by tenant A through the item API (add, update,
\* delete, toggle, complete shop, delete category) never creates, changes
\* or deletes an item or list of another tenant B.
C25_TenantIsolation ==
  /\ [](\A i \in items :
          \E l \in lists : l.id = i.list_id /\ l.tenant_id = i.tenant_id)
  /\ [][\A a \in Tenants :
          ItemApiRequest(a)
          => /\ {i \in items' : i.tenant_id # a} = {i \in items : i.tenant_id # a}
             /\ {l \in lists' : l.tenant_id # a} = {l \in lists : l.tenant_id # a}]_vars

\* Tenant t1 was answered NotFound while t2 holds an item in its own list
\* and t1 holds one as well
C25_OtherTenantsItemKept ==
  /\ resp = ItemNotFound
  /\ \E i \in items, l \in lists :
       i.tenant_id = "t2" /\ l.id = i.list_id /\ l.tenant_id = "t2"
  /\ \E i \in items : i.tenant_id = "t1"

\* C26: every stored shopping item satisfies name_normalized ==
\* normalize(name) after any sequence of add_item (create or merge) and
\* update_item calls, including updates that change the name.
C26_NormalizedMatchesName ==
  \A i \in items : i.name_normalized = normalize_item_name(i.name)

\* An item created as "Bread" was renamed to "milk " and is stored under
\* the key "milk"
C26_RenamedItemRenormalized ==
  /\ resp.schema = "ShoppingItemResponse"
  /\ \E i \in items :
       /\ resp.item = Some(i.id)
       /\ i.name = MilkVariant
       /\ i.name_normalized = <<"m","i","l","k">>
       /\ i.category = <<"B","a","k","e","r","y">>

\* C27: no stored shopping item has an empty name_normalized: every name
\* accepted by request validation for add_item or update_item normalizes to
\* a non-empty matching key.
C27_NormalizedNameNotEmpty ==
  \A i \in items : i.name_normalized # <<>>

\* C28: a merge in add_item changes only the existing item's quantity and
\* source (and updated_at): its name, unit, category, checked flag and
\* checked_at stay as they were, the incoming unit and category are
\* discarded, and no other item in the store changes.
C28_MergeFrame ==
  [][\A r \in MergeRequests :
       (/\ resp'.merged = TRUE
        /\ AddItem("t1", 1, r))
       => /\ nextId' = nextId
          /\ \E e \in items, n \in items' :
               /\ resp'.item = Some(e.id)
               /\ n.id = e.id
               /\ items' \ {n} = items \ {e}
               /\ n = [e EXCEPT !.quantity = n.quantity, !.source = n.source]
               /\ n.name = e.name /\ n.unit = e.unit /\ n.category = e.category
               /\ n.checked = e.checked /\ n.checked_at = e.checked_at]_vars

\* "Milk" was created without unit in category Dairy, a request with
\* quantity 2 was merged into it, and "Bread" lies beside it
C28_MergedBesideOther ==
  /\ resp.merged = TRUE
  /\ resp.previous_quantity = Some(1)
  /\ \E i \in items, o \in items :
       /\ resp.item = Some(i.id)
       /\ i.name = Milk /\ i.unit = None /\ i.category = Dairy
       /\ i.quantity = 3 /\ i.source = "multiple"
       /\ o.name = Bread /\ o.source = "manual"

(***************************************************************************)
(* Properties of refresh tokens                                            *)
(***************************************************************************)
\* C30: refresh-token revocation is permanent: once a refresh token has
\* been revoked by logout or by deactivating its user, no later refresh
\* request presenting that token obtains an access token, and a token's
\* revoked_at is never cleared.
C30_RevocationPermanent ==
  [][/\ \A t \in IssuedTokens :
          (/\ \E r \in refresh_tokens :
                r.token_hash = hash_token(t) /\ r.revoked_at # None
           /\ Refresh(t))
          => resp'.schema # "AccessTokenResponse"
     /\ \A r \in refresh_tokens :
          r.revoked_at # None
          => \E n \in refresh_tokens' : n.id = r.id /\ n.revoked_at = r.revoked_at]_vars

============================================================================
